---------------------------- MODULE Spec2Model ----------------------------
(***************************************************************************)
(* A model of the date/range computation engine of datetimerange-picker:   *)
(* the calendar grid (CalendarRenderer.buildCalendar), the classification  *)
(* of its cells (CalendarRenderer.render), and the selection state machine *)
(* with its two calendar anchors (DateRangePicker).                        *)
(*                                                                         *)
(* A luxon DateTime is a record of its calendar fields; the local zone is  *)
(* taken to have no offset changes.                                        *)
(***************************************************************************)
EXTENDS Integers, Sequences, FiniteSets, TLC

VARIABLES
    \* the DateRangePicker instance: its configuration (linkedCalendars,
    \* singleDatePicker, autoApply, timePicker, showDropdowns,
    \* showCustomRangeLabel, minDate, maxDate, maxSpan, locale, minYear,
    \* maxYear, isInvalidDate, ranges), its selection (startDate, endDate,
    \* oldStartDate, oldEndDate, chosenLabel, isShowing), its two calendars
    \* (leftCalendar, rightCalendar: [month, calendar]), what the last render
    \* left in its container (tables, applyDisabled), the callback
    \* invocations of the last command (called) and whether that command
    \* ended in an exception (threw).  A calendar matrix is kept as the
    \* arguments it was built from, and the two calendar tables as the
    \* arguments they were rendered with: Matrix and Table give their values
    drp

vars == <<drp>>

-----------------------------------------------------------------------------
(* luxon DateTime *)

\* `null` (an open selection's endDate) and `false` (an option not set)
NULL == [null |-> TRUE]
NONE == [none |-> TRUE]

IsLeap(y) == (y % 4 = 0 /\ y % 100 # 0) \/ y % 400 = 0

DaysInMonth(y, m) ==
    IF m = 2 THEN (IF IsLeap(y) THEN 29 ELSE 28)
    ELSE IF m \in {4, 6, 9, 11} THEN 30 ELSE 31

\* days from 0000-03-01 to y-m-d (proleptic Gregorian)
DaysFromCivil(y, m, d) ==
    LET yy  == IF m <= 2 THEN y - 1 ELSE y
        era == yy \div 400
        yoe == yy - era * 400
        mp  == IF m > 2 THEN m - 3 ELSE m + 9
        doy == (153 * mp + 2) \div 5 + d - 1
        doe == yoe * 365 + yoe \div 4 - yoe \div 100 + doy
    IN  era * 146097 + doe

\* the inverse: the day of a 400-year era, its year of the era, its day of
\* the March-based year and its March-based month give the civil date
CivilFromMp(yy, doy, mp) ==
    [year  |-> yy + (IF mp < 10 THEN 0 ELSE 1),
     month |-> IF mp < 10 THEN mp + 3 ELSE mp - 9,
     day   |-> doy - (153 * mp + 2) \div 5 + 1]

CivilFromDoy(yy, doy) == CivilFromMp(yy, doy, (5 * doy + 2) \div 153)

CivilFromYoe(era, doe, yoe) ==
    CivilFromDoy(yoe + era * 400,
                 doe - (365 * yoe + yoe \div 4 - yoe \div 100))

CivilFromDoe(era, doe) ==
    CivilFromYoe(era, doe,
        (doe - doe \div 1460 + doe \div 36524 - doe \div 146096) \div 365)

CivilFromDays(n) == CivilFromDoe(n \div 146097, n % 146097)

\* DateTime.local(year, month, day): midnight of that day
Local(y, m, d) ==
    [year |-> y, month |-> m, day |-> d,
     hour |-> 0, minute |-> 0, second |-> 0, millisecond |-> 0]

DayNum(dt) == DaysFromCivil(dt.year, dt.month, dt.day)

MsOfDay(dt) ==
    ((dt.hour * 60 + dt.minute) * 60 + dt.second) * 1000 + dt.millisecond

\* dt.weekday: 1 = Monday ... 7 = Sunday
Weekday(dt) == ((DayNum(dt) + 2) % 7) + 1

\* a.hasSame(b, 'day')
HasSameDay(a, b) ==
    a.year = b.year /\ a.month = b.month /\ a.day = b.day

\* a < b, a > b, a.equals(b) on instants
Lt(a, b) ==
    \/ a.year < b.year
    \/ a.year = b.year /\ a.month < b.month
    \/ a.year = b.year /\ a.month = b.month /\ a.day < b.day
    \/ HasSameDay(a, b) /\ MsOfDay(a) < MsOfDay(b)
Gt(a, b) == Lt(b, a)
Equals(a, b) == HasSameDay(a, b) /\ MsOfDay(a) = MsOfDay(b)

StartOfDay(dt) ==
    [dt EXCEPT !.hour = 0, !.minute = 0, !.second = 0, !.millisecond = 0]
EndOfDay(dt) ==
    [dt EXCEPT !.hour = 23, !.minute = 59, !.second = 59, !.millisecond = 999]

\* dt.set({ day: d })
SetDay(dt, d) == [dt EXCEPT !.day = d]

\* dt.set({ hour, minute, second })
SetTime(dt, h, mi, s) == [dt EXCEPT !.hour = h, !.minute = mi, !.second = s]

\* dt.plus({ days: n }), n of either sign
WithCivil(dt, c) ==
    [dt EXCEPT !.year = c.year, !.month = c.month, !.day = c.day]
PlusDays(dt, n) == WithCivil(dt, CivilFromDays(DayNum(dt) + n))

\* dt.plus({ months: n }), n of either sign: the day is kept when the target
\* month has it, and is the target month's last day otherwise
InMonth(dt, y, m) ==
    [dt EXCEPT !.year = y, !.month = m,
               !.day = IF dt.day > DaysInMonth(y, m)
                       THEN DaysInMonth(y, m) ELSE dt.day]
AtMonthIndex(dt, k) == InMonth(dt, k \div 12, (k % 12) + 1)
PlusMonths(dt, n) == AtMonthIndex(dt, dt.year * 12 + (dt.month - 1) + n)

\* dt.plus(duration) for a Duration of whole days
PlusDuration(dt, dur) == PlusDays(dt, dur.days)

-----------------------------------------------------------------------------
(* CalendarRenderer.buildCalendar *)

Rows == 0..5
Cols == 0..6

\* the 0..6 weekday (Sunday = 0) of day 1 of the anchor's month
DayOfWeek(monthDT) == Weekday(SetDay(monthDT, 1)) % 7

\* the same difference taken the other way round
FirstDayOfWeekInLocaleReversed(monthDT, firstDay) ==
    (firstDay - DayOfWeek(monthDT) + 7) % 7

\* how many days of the previous month lead the grid
FirstDayOfWeekInLocale(monthDT, firstDay) ==
    (DayOfWeek(monthDT) - firstDay + 7) % 7

\* a grid that starts one week earlier
GridStartWeekEarlier(monthDT, firstDay) ==
    PlusDays(Local(monthDT.year, monthDT.month, 1),
             0 - FirstDayOfWeekInLocale(monthDT, firstDay) - 7)

\* the grid's [0][0], before the anchor's time of day is applied
GridStart(monthDT, firstDay) ==
    PlusDays(Local(monthDT.year, monthDT.month, 1),
             0 - FirstDayOfWeekInLocale(monthDT, firstDay))

\* a grid whose rows are six days apart
BuildMatrixSixApart(monthDT, firstDay) ==
    LET curDate == GridStart(monthDT, firstDay)
    IN  [row \in Rows |-> [col \in Cols |->
            SetTime(PlusDays(curDate, 6 * row + col),
                    monthDT.hour, monthDT.minute, monthDT.second)]]

\* cell i of the loop, i = 0..41, lands on row i div 7, column i mod 7
BuildMatrix(monthDT, firstDay) ==
    LET curDate == GridStart(monthDT, firstDay)
    IN  [row \in Rows |-> [col \in Cols |->
            SetTime(PlusDays(curDate, 7 * row + col),
                    monthDT.hour, monthDT.minute, monthDT.second)]]

\* calendarData.calendar = calendar
buildCalendar(calendarData, firstDay) ==
    [calendarData EXCEPT
        !.calendar = [monthDT |-> calendarData.month, firstDay |-> firstDay]]

\* the matrix a calendar field holds
Matrix(calendar) == BuildMatrix(calendar.monthDT, calendar.firstDay)


-----------------------------------------------------------------------------
(* CalendarRenderer.render *)

\* DateTime.local(): the current instant, fixed for a run
Now == [year |-> 2024, month |-> 3, day |-> 15,
        hour |-> 10, minute |-> 30, second |-> 0, millisecond |-> 0]

Civil(dt) == [year |-> dt.year, month |-> dt.month, day |-> dt.day]

\* the lower limit of a side: minDate on the left, the start's day on the right
MinDateLimit(side, start, minD) ==
    IF side = "left" THEN minD ELSE StartOfDay(start)

\* the upper limit: maxDate, adjusted by maxSpan while the selection is open
SpanLimit(maxDateLimit, maxLimit) ==
    IF maxDateLimit = NONE \/ Gt(maxLimit, maxDateLimit)
    THEN maxLimit ELSE maxDateLimit

MaxDateLimit(start, end, maxD, span) ==
    IF end = NULL /\ span # NONE
    THEN SpanLimit(maxD, EndOfDay(PlusDuration(start, span)))
    ELSE maxD

\* isDisabled of one cell
IsDisabled(p, date, minDateLimit, maxDateLimit) ==
    \/ minDateLimit # NONE
       /\ Lt(StartOfDay(date), StartOfDay(minDateLimit))
    \/ maxDateLimit # NONE
       /\ Gt(EndOfDay(date), EndOfDay(maxDateLimit))
    \/ Civil(date) \in p.isInvalidDate

\* between the instants of the selection rather than between its days
InRangeOfInstants(date, start, end) ==
    end # NULL /\ Gt(date, start) /\ Lt(date, end)

\* after the start's day and before the end's day
InRange(date, start, end) ==
    end # NULL /\ Gt(date, EndOfDay(start)) /\ Lt(date, StartOfDay(end))

\* the class list of one cell
Classes(date, anchorCell, start, end, isDisabled) ==
        (IF HasSameDay(date, Now) THEN {"today"} ELSE {})
        \cup (IF Weekday(date) \in {6, 7} THEN {"weekend"} ELSE {})
        \cup (IF date.month # anchorCell.month THEN {"off", "ends"} ELSE {})
        \cup (IF isDisabled THEN {"off", "disabled"} ELSE {})
        \cup (IF HasSameDay(date, start) THEN {"active", "start-date"} ELSE {})
        \cup (IF end # NULL /\ HasSameDay(date, end)
              THEN {"active", "end-date"} ELSE {})
        \cup (IF InRange(date, start, end) THEN {"in-range"} ELSE {})
        \cup (IF ~isDisabled THEN {"available"} ELSE {})

CellClasses(p, date, anchorCell, start, end, minDateLimit, maxDateLimit) ==
    Classes(date, anchorCell, start, end,
            IsDisabled(p, date, minDateLimit, maxDateLimit))

IsPrevAvailable(p, side, firstDay, minDateLimit) ==
    /\ minDateLimit = NONE
       \/ Gt(StartOfDay(firstDay), StartOfDay(minDateLimit))
    /\ side = "left" \/ ~p.linkedCalendars

IsNextAvailable(p, side, lastDay, maxDateLimit) ==
    /\ maxDateLimit = NONE
       \/ Lt(EndOfDay(lastDay), EndOfDay(maxDateLimit))
    /\ side = "right" \/ ~p.linkedCalendars \/ p.singleDatePicker

\* the months the month dropdown offers enabled, and the years the year
\* dropdown lists
MonthOptions(p, cur, minDateLimit, maxDateLimit) ==
    LET maxYearLimit == IF maxDateLimit # NONE THEN maxDateLimit.year ELSE p.maxYear
        minYearLimit == IF minDateLimit # NONE THEN minDateLimit.year ELSE p.minYear
        inMinYear == cur.year = minYearLimit
        inMaxYear == cur.year = maxYearLimit
    IN  {m \in 1..12 :
            ~ \/ inMinYear /\ minDateLimit # NONE /\ m < minDateLimit.month
              \/ inMaxYear /\ maxDateLimit # NONE /\ m > maxDateLimit.month}

YearOptions(p, minDateLimit, maxDateLimit) ==
    LET maxYearLimit == IF maxDateLimit # NONE THEN maxDateLimit.year ELSE p.maxYear
        minYearLimit == IF minDateLimit # NONE THEN minDateLimit.year ELSE p.minYear
    IN  [lo |-> minYearLimit, hi |-> maxYearLimit]

\* what render(side, ...) writes into the side's calendar table
RenderTable(p, side, calendar, start, end, minDateLimit, maxDateLimit) ==
        [prev  |-> IsPrevAvailable(p, side, calendar[0][0], minDateLimit),
         next  |-> IsNextAvailable(p, side, calendar[5][6], maxDateLimit),
         month |-> calendar[1][1].month,
         year  |-> calendar[1][1].year,
         monthOptions |-> IF p.showDropdowns
                          THEN MonthOptions(p, calendar[1][1], minDateLimit, maxDateLimit)
                          ELSE {},
         yearOptions  |-> IF p.showDropdowns
                          THEN YearOptions(p, minDateLimit, maxDateLimit)
                          ELSE [lo |-> 1, hi |-> 0],
         cells |-> [row \in Rows |-> [col \in Cols |->
                      CellClasses(p, calendar[row][col], calendar[1][1],
                                  start, end, minDateLimit, maxDateLimit)]]]

Render(p, side, calendarData, start, end, minD, maxD, span) ==
    RenderTable(p, side, Matrix(calendarData.calendar), start, end,
                MinDateLimit(side, start, minD),
                MaxDateLimit(start, end, maxD, span))

\* the calendar tables before the first render: no cell, no arrow, no handler
\* and no cell re-classed by a hover
NoTables == [rendered |-> FALSE, bound |-> FALSE,
             startDate |-> NULL, endDate |-> NULL, hover |-> NULL]


-----------------------------------------------------------------------------
(* TimePickerRenderer.render *)

\* the value of a select that shows no option, read with parseInt: not one
\* of the numbers an option stands for
NAN == 0 - 1

\* the values the hour select lists: 0..23, or 1..12 next to an AM/PM select
HourOptions(p) == IF p.timePicker24Hour THEN 0..23 ELSE 1..12

\* the 0..23 hour a listed value stands for, in the half of the day of the
\* time the picker is rendered for
IIn24(p, selectedHour, i) ==
    IF p.timePicker24Hour THEN i
    ELSE IF selectedHour >= 12 THEN (IF i = 12 THEN 12 ELSE i + 12)
    ELSE (IF i = 12 THEN 0 ELSE i)

MinuteOptions(p) == {i \in 0..59 : i % p.timePickerIncrement = 0}

\* currentMinDate: minDate on the left, the start on the right
CurrentMinDate(side, startDate, minD) ==
    IF side = "left" THEN minD ELSE startDate

\* maxDate, replaced by start + maxSpan when that is earlier
TimeMaxDate(startDate, maxD, span) ==
    IF span # NONE
       /\ (maxD = NONE \/ Lt(PlusDuration(startDate, span), maxD))
    THEN PlusDuration(startDate, span) ELSE maxD

HourDisabled(selected, iIn24, minD, maxD) ==
    \/ minD # NONE /\ Lt(SetTime(selected, iIn24, 59, 59), minD)
    \/ maxD # NONE /\ Gt(SetTime(selected, iIn24, 0, 0), maxD)

MinuteDisabled(selected, i, minD, maxD) ==
    \/ minD # NONE /\ Lt(SetTime(selected, selected.hour, i, 59), minD)
    \/ maxD # NONE /\ Gt(SetTime(selected, selected.hour, i, 0), maxD)

SecondDisabled(selected, i, minD, maxD) ==
    \/ minD # NONE
       /\ Lt(SetTime(selected, selected.hour, selected.minute, i), minD)
    \/ maxD # NONE
       /\ Gt(SetTime(selected, selected.hour, selected.minute, i), maxD)

AmDisabled(selected, minD) ==
    minD # NONE /\ Lt(SetTime(selected, 12, 0, 0), minD)

PmDisabled(selected, maxD) ==
    maxD # NONE /\ Gt(SetTime(selected, 0, 0, 0), maxD)

\* the options of a side's selects that are not disabled
EnabledHours(p, selected, minD, maxD) ==
    {i \in HourOptions(p) :
        ~HourDisabled(selected, IIn24(p, selected.hour, i), minD, maxD)}

EnabledMinutes(p, selected, minD, maxD) ==
    {i \in MinuteOptions(p) : ~MinuteDisabled(selected, i, minD, maxD)}

EnabledSeconds(p, selected, minD, maxD) ==
    {i \in 0..59 : ~SecondDisabled(selected, i, minD, maxD)}

EnabledAmPm(selected, minD, maxD) ==
    (IF AmDisabled(selected, minD) THEN {} ELSE {"AM"})
    \cup (IF PmDisabled(selected, maxD) THEN {} ELSE {"PM"})

\* the value a select shows after the render: the option marked selected,
\* the first option that is not disabled when none is marked, none otherwise
FirstOf(options) ==
    IF options = {} THEN NAN
    ELSE CHOOSE i \in options : \A j \in options : i <= j

ShownValue(marked, enabled) ==
    IF marked # {} THEN FirstOf(marked) ELSE FirstOf(enabled)

HourValue(p, selected, enabled) ==
    ShownValue({i \in enabled : IIn24(p, selected.hour, i) = selected.hour},
               enabled)

MinuteValue(p, selected, enabled) ==
    ShownValue({i \in enabled : selected.minute >= i
                                /\ selected.minute < i + p.timePickerIncrement},
               enabled)

SecondValue(selected, enabled) ==
    ShownValue({i \in enabled : selected.second = i}, enabled)

\* what render(side, selected, startDate, ...) leaves in the side's selects
TimeValues(p, selected, minD, maxD) ==
    [hour   |-> HourValue(p, selected, EnabledHours(p, selected, minD, maxD)),
     minute |-> MinuteValue(p, selected,
                            EnabledMinutes(p, selected, minD, maxD)),
     second |-> IF p.timePickerSeconds
                THEN SecondValue(selected,
                                 EnabledSeconds(p, selected, minD, maxD))
                ELSE NAN,
     ampm   |-> IF p.timePicker24Hour THEN ""
                ELSE IF selected.hour >= 12 THEN "PM" ELSE "AM"]

RenderTime(p, side, selected, startDate, minD, maxD, span) ==
    TimeValues(p, selected, CurrentMinDate(side, startDate, minD),
               TimeMaxDate(startDate, maxD, span))

\* the time selects before the first render
NoTimes == [rendered |-> FALSE, bound |-> FALSE]


-----------------------------------------------------------------------------
(* DateRangePicker: construction *)

\* an option the caller did not give; a boolean option is given as {TRUE} or
\* {FALSE} and is {} when not given, so that !!option is TRUE \in option
UNDEFINED == [undefined |-> TRUE]
Truthy(opt) == TRUE \in opt

CustomRangeLabel == "Rango Personalizado"

\* chosenLabel = null: no label, told apart from every label
NOLABEL == "null"

\* parseDate of applyOptions: a DateTime is kept, anything else is false
ParseDate(date) == IF date = UNDEFINED THEN NONE ELSE date

\* the fields the constructor sets before it applies the options
Fresh ==
    [linkedCalendars |-> TRUE, singleDatePicker |-> FALSE, autoApply |-> FALSE,
     timePicker |-> FALSE, timePickerSeconds |-> FALSE,
     timePickerIncrement |-> 1, timePicker24Hour |-> FALSE,
     showDropdowns |-> FALSE, showCustomRangeLabel |-> TRUE,
     autoUpdateInput |-> TRUE,
     minDate |-> NONE, maxDate |-> NONE, maxSpan |-> NONE,
     locale |-> [firstDay |-> 1, customRangeLabel |-> CustomRangeLabel],
     minYear |-> Now.year - 100, maxYear |-> Now.year + 100,
     isInvalidDate |-> {}, ranges |-> <<>>,
     startDate |-> StartOfDay(Now), endDate |-> EndOfDay(Now),
     oldStartDate |-> StartOfDay(Now), oldEndDate |-> EndOfDay(Now),
     chosenLabel |-> NOLABEL, isShowing |-> FALSE,
     leftCalendar  |-> [month |-> SetDay(StartOfDay(Now), 2), calendar |-> NULL],
     rightCalendar |-> [month |-> PlusMonths(SetDay(StartOfDay(Now), 2), 1),
                        calendar |-> NULL],
     tables |-> NoTables, times |-> NoTimes,
     applyDisabled |-> TRUE,
     called |-> <<>>, threw |-> FALSE]

\* roundMinutes of applyOptions
RoundMinutes(dt, increment) ==
    [dt EXCEPT !.minute = @ - (@ % increment)]

\* the last statement of applyOptions: the selection is cut to whole days
\* without the time picker and to the minute increment with it
Truncated(p) ==
    IF ~p.timePicker
    THEN [p EXCEPT !.startDate = StartOfDay(@), !.endDate = EndOfDay(@)]
    ELSE IF p.timePickerIncrement # 0
    THEN [p EXCEPT !.startDate = RoundMinutes(@, p.timePickerIncrement),
                   !.endDate = RoundMinutes(@, p.timePickerIncrement)]
    ELSE p

applyOptions(p, options) ==
    LET start0 == IF ParseDate(options.startDate) # NONE
                  THEN options.startDate ELSE p.startDate
        end0   == IF ParseDate(options.endDate) # NONE
                  THEN options.endDate ELSE p.endDate
        minD   == ParseDate(options.minDate)
        maxD   == ParseDate(options.maxDate)
        single == Truthy(options.singleDatePicker)
        end1   == IF single THEN start0 ELSE end0
        tp     == Truthy(options.timePicker)
        \* sanity checks
        start2 == IF minD # NONE /\ Lt(start0, minD) THEN minD ELSE start0
        end2   == IF maxD # NONE /\ Gt(end1, maxD) THEN maxD ELSE end1
    IN  Truncated([p EXCEPT
            !.locale = IF options.firstDay = UNDEFINED THEN @
                       ELSE [@ EXCEPT !.firstDay = options.firstDay.value],
            !.minDate = minD,
            !.maxDate = maxD,
            !.singleDatePicker = single,
            !.timePicker = tp,
            !.timePickerSeconds = Truthy(options.timePickerSeconds),
            !.timePickerIncrement =
                IF options.timePickerIncrement = UNDEFINED THEN @
                ELSE options.timePickerIncrement.value,
            !.timePicker24Hour = Truthy(options.timePicker24Hour),
            !.autoApply = Truthy(options.autoApply),
            !.autoUpdateInput = Truthy(options.autoUpdateInput),
            !.linkedCalendars = Truthy(options.linkedCalendars),
            !.showCustomRangeLabel = Truthy(options.showCustomRangeLabel),
            !.showDropdowns = Truthy(options.showDropdowns),
            !.maxSpan = IF options.maxSpan = UNDEFINED THEN @ ELSE options.maxSpan,
            !.isInvalidDate = options.isInvalidDate,
            !.startDate = start2,
            !.endDate = end2])

-----------------------------------------------------------------------------
(* DateRangePicker: the view *)

\* the first branch of updateMonthsInView: the anchors follow the selection
MonthsOfSelection(p) ==
    IF p.endDate # NULL
    THEN [p EXCEPT
            !.leftCalendar.month = SetDay(p.startDate, 2),
            !.rightCalendar.month =
                IF ~p.linkedCalendars
                   /\ (p.endDate.month # p.startDate.month
                       \/ p.endDate.year # p.startDate.year)
                THEN SetDay(p.endDate, 2)
                ELSE PlusMonths(SetDay(p.startDate, 2), 1)]
    ELSE p

\* its second branch: the right anchor is brought back to maxDate's month
MonthsWithinMaxDate(p) ==
    IF p.maxDate # NONE /\ p.linkedCalendars /\ ~p.singleDatePicker
       /\ Gt(p.rightCalendar.month, p.maxDate)
    THEN [p EXCEPT
            !.rightCalendar.month = SetDay(p.maxDate, 2),
            !.leftCalendar.month = PlusMonths(SetDay(p.maxDate, 2), -1)]
    ELSE p

updateMonthsInView(p) ==
    IF p.threw THEN p ELSE MonthsWithinMaxDate(MonthsOfSelection(p))

\* this.endDate.hasSame(...) throws a TypeError when endDate is null; it is
\* reached by the first preset whose start is on startDate's day
calculateChosenLabel(p) ==
    IF p.threw THEN p ELSE
    LET n == Len(p.ranges)
        scanned(i) == p.ranges[i].label # p.locale.customRangeLabel
        startHit(i) == scanned(i) /\ HasSameDay(p.startDate, p.ranges[i].start)
        hits == {i \in 1..n : startHit(i)}
    IN  IF p.endDate = NULL
        THEN IF hits # {} THEN [p EXCEPT !.threw = TRUE]
             ELSE [p EXCEPT !.chosenLabel =
                      IF p.showCustomRangeLabel
                      THEN p.locale.customRangeLabel ELSE NOLABEL]
        ELSE LET found == {i \in hits : HasSameDay(p.endDate, p.ranges[i].end)}
             IN  [p EXCEPT !.chosenLabel =
                     IF found # {}
                     THEN p.ranges[CHOOSE i \in found :
                                      \A j \in found : i <= j].label
                     ELSE IF p.showCustomRangeLabel
                          THEN p.locale.customRangeLabel ELSE NOLABEL]

\* the steps of updateCalendars: both matrices are built, both tables are
\* rendered (which drops the handlers of the cells they replace), and the
\* handlers are bound to the new cells only after calculateChosenLabel
BuildCalendars(p) ==
    [p EXCEPT !.leftCalendar = buildCalendar(@, p.locale.firstDay),
              !.rightCalendar = buildCalendar(@, p.locale.firstDay)]

RenderCalendars(p) ==
    [p EXCEPT !.tables = [rendered |-> TRUE, bound |-> FALSE,
                          startDate |-> p.startDate, endDate |-> p.endDate,
                          hover |-> NULL]]

BindCalendars(p) ==
    IF p.threw THEN p
    ELSE [p EXCEPT !.tables.bound = TRUE, !.times.bound = p.times.rendered]

updateCalendars(p) ==
    IF p.threw THEN p
    ELSE BindCalendars(calculateChosenLabel(RenderCalendars(BuildCalendars(p))))

updateFormInputsEndOnly(p) ==
    IF p.threw THEN p ELSE [p EXCEPT !.applyDisabled = (p.endDate = NULL)]

updateFormInputs(p) ==
    IF p.threw THEN p ELSE
    [p EXCEPT !.applyDisabled =
        ~ (p.endDate # NULL
           /\ (Lt(p.startDate, p.endDate) \/ Equals(p.startDate, p.endDate)))]

\* the time the right selects are rendered for: the end, or the right
\* calendar's month while the end is absent
RightSelected(p) ==
    IF p.endDate # NULL THEN p.endDate ELSE p.rightCalendar.month

\* both sides' selects are replaced, so they carry no handler; the right
\* ones are disabled while the end is absent
RenderedTimes(p, rightSelected) ==
    [rendered |-> TRUE, bound |-> FALSE,
     startDate |-> p.startDate,
     left  |-> [selected |-> p.startDate, disabled |-> FALSE,
                value |-> RenderTime(p, "left", p.startDate, p.startDate,
                                     p.minDate, p.maxDate, p.maxSpan)],
     right |-> [selected |-> rightSelected, disabled |-> p.endDate = NULL,
                value |-> RenderTime(p, "right", rightSelected, p.startDate,
                                     p.startDate, p.maxDate, p.maxSpan)]]

renderTimePickers(p) ==
    IF p.threw THEN p
    ELSE [p EXCEPT !.times = RenderedTimes(p, RightSelected(p))]

TimePickersOfView(p) == IF p.timePicker THEN renderTimePickers(p) ELSE p

updateView(p) ==
    updateFormInputs(updateCalendars(updateMonthsInView(TimePickersOfView(p))))


-----------------------------------------------------------------------------
(* DateRangePicker: public methods and handlers *)

setStartDate(p, startDate) ==
    IF p.threw THEN p ELSE
    updateMonthsInView(
        [p EXCEPT !.startDate = IF ~p.timePicker THEN StartOfDay(startDate)
                                ELSE startDate])

setEndDate(p, endDate) ==
    IF p.threw THEN p ELSE
    updateMonthsInView(
        [p EXCEPT !.endDate = IF ~p.timePicker THEN EndOfDay(endDate)
                              ELSE endDate])

\* this.endDate.setZone(...) throws when endDate is null
Shown(p) == IF p.threw THEN p ELSE [p EXCEPT !.isShowing = TRUE]

\* a show that keeps the snapshot of the opening before
\* a show that takes the snapshot again while the picker shows
showAgain(p) ==
    IF p.threw THEN p
    ELSE IF p.endDate = NULL THEN [p EXCEPT !.threw = TRUE]
    ELSE Shown(updateView([p EXCEPT !.oldStartDate = p.startDate,
                                    !.oldEndDate = p.endDate]))

showKeepingSnapshot(p) ==
    IF p.threw \/ p.isShowing THEN p
    ELSE IF p.endDate = NULL THEN [p EXCEPT !.threw = TRUE]
    ELSE Shown(updateView(p))

show(p) ==
    IF p.threw \/ p.isShowing THEN p
    ELSE IF p.endDate = NULL THEN [p EXCEPT !.threw = TRUE]
    ELSE Shown(updateView([p EXCEPT !.oldStartDate = p.startDate,
                                    !.oldEndDate = p.endDate]))

\* a close that keeps an open selection
RevertedNever(p) == p

\* the steps of hide: an open selection goes back to the committed one, the
\* callback is invoked when the selection differs from the committed one
Reverted(p) ==
    IF p.endDate = NULL
    THEN [p EXCEPT !.startDate = p.oldStartDate, !.endDate = p.oldEndDate]
    ELSE p

\* a close that invokes the callback whatever the selection
NotifiedAlways(p) ==
    [p EXCEPT !.called = Append(@,
         [start |-> p.startDate, end |-> p.endDate, label |-> p.chosenLabel])]

Notified(p) ==
    IF ~Equals(p.startDate, p.oldStartDate)
       \/ ~Equals(p.endDate, p.oldEndDate)
    THEN [p EXCEPT !.called = Append(@,
             [start |-> p.startDate, end |-> p.endDate,
              label |-> p.chosenLabel])]
    ELSE p

hide(p) ==
    IF p.threw \/ ~p.isShowing THEN p
    ELSE [Notified(Reverted(p)) EXCEPT !.isShowing = FALSE]

toggle(p) == IF p.isShowing THEN hide(p) ELSE show(p)

clickApply(p) == hide(p)

\* a cancel that only closes
clickCancelAsHide(p) == hide(p)

clickCancel(p) ==
    IF p.threw THEN p ELSE
    hide([p EXCEPT !.startDate = p.oldStartDate, !.endDate = p.oldEndDate])

Calendar(p, side) ==
    IF side = "left" THEN p.leftCalendar ELSE p.rightCalendar

\* the side's calendar table as the last render left it
Table(p, side) ==
    Render(p, side, Calendar(p, side), p.tables.startDate, p.tables.endDate,
           p.minDate, p.maxDate, p.maxSpan)

clickPrev(p, side) ==
    updateCalendars(
        IF side = "left"
        THEN [p EXCEPT
                !.leftCalendar.month = PlusMonths(@, -1),
                !.rightCalendar.month =
                    IF p.linkedCalendars THEN PlusMonths(@, -1) ELSE @]
        ELSE [p EXCEPT !.rightCalendar.month = PlusMonths(@, -1)])

clickNextRightOnly(p, side) ==
    updateCalendars(
        IF side = "left"
        THEN [p EXCEPT !.leftCalendar.month = PlusMonths(@, 1)]
        ELSE [p EXCEPT !.rightCalendar.month = PlusMonths(@, 1)])

clickNext(p, side) ==
    updateCalendars(
        IF side = "left"
        THEN [p EXCEPT !.leftCalendar.month = PlusMonths(@, 1)]
        ELSE [p EXCEPT
                !.rightCalendar.month = PlusMonths(@, 1),
                !.leftCalendar.month =
                    IF p.linkedCalendars THEN PlusMonths(@, 1) ELSE @])

\* the cell's date; with the time picker its time comes from the side's selects
ClickedDate(p, side, row, col) == Matrix(Calendar(p, side).calendar)[row][col]

\* a conversion that adds 12 to every PM hour
H24NoonShifted(p, hour, ampm) ==
    IF p.timePicker24Hour THEN hour
    ELSE IF ampm = "AM" /\ hour = 12 THEN 0
    ELSE IF ampm = "PM" THEN hour + 12
    ELSE hour

\* the 0..23 hour of a side's hour and AM/PM selects
H24(p, hour, ampm) ==
    IF p.timePicker24Hour THEN hour
    ELSE IF ampm = "AM" /\ hour = 12 THEN 0
    ELSE IF ampm = "PM" /\ hour # 12 THEN hour + 12
    ELSE hour

\* date.set({ hour: h, minute, second }) with the values of a side's selects
WithSelects(p, date, value) ==
    SetTime(date, H24(p, value.hour, value.ampm), value.minute,
            IF p.timePickerSeconds THEN value.second ELSE 0)

TimeSelects(p, side) ==
    IF side = "left" THEN p.times.left ELSE p.times.right

\* the clicked date with the time of the side's selects merged in
TimedDate(p, side, date) ==
    IF p.timePicker THEN WithSelects(p, date, TimeSelects(p, side).value)
    ELSE date

\* the steps of clickDate: the date starts a selection or ends the open one
AutoApplied(p) ==
    IF p.autoApply THEN clickApply(calculateChosenLabel(p)) ELSE p

\* a new selection that keeps the end of the one before
PickedKeepingEnd(p, date) ==
    IF p.endDate # NULL \/ Lt(date, StartOfDay(p.startDate))
    THEN setStartDate(p, date)
    ELSE AutoApplied(setEndDate(p, date))

\* a click that ends the open selection on whatever date
PickedAsEnd(p, date) ==
    IF p.endDate # NULL
    THEN setStartDate([p EXCEPT !.endDate = NULL], date)
    ELSE AutoApplied(setEndDate(p, date))

Picked(p, date) ==
    IF p.endDate # NULL \/ Lt(date, StartOfDay(p.startDate))
    THEN setStartDate([p EXCEPT !.endDate = NULL], date)
    ELSE AutoApplied(setEndDate(p, date))

\* a single-date click that applies whenever autoApply is set
SingleAppliedAlways(p) ==
    IF p.autoApply THEN clickApply(p) ELSE p

SingleApplied(p) ==
    IF ~p.timePicker /\ p.autoApply THEN clickApply(p) ELSE p

\* a single-date click that is treated as a range click
SinglePickedAsRange(p) == p

SinglePicked(p) ==
    IF p.singleDatePicker
    THEN SingleApplied(setEndDate(p, p.startDate))
    ELSE p

\* a click handler that does not look at the cell's classes
clickDateAnyCell(p, side, row, col) ==
    updateView(SinglePicked(
        Picked(p, TimedDate(p, side, ClickedDate(p, side, row, col)))))

clickDate(p, side, row, col) ==
    IF "available" \notin Table(p, side).cells[row][col] THEN p
    ELSE updateView(SinglePicked(
             Picked(p, TimedDate(p, side, ClickedDate(p, side, row, col)))))

\* the test hoverDate makes on the date d of every cell, date being the
\* hovered cell's
HoverInRange(d, start, date) ==
    \/ Gt(d, EndOfDay(start)) /\ Lt(d, StartOfDay(date))
    \/ HasSameDay(d, date)

\* hoverDate adds in-range to, or removes it from, every cell of both tables;
\* the tables keep the hovered date and the start the cells were tested with
hoverDate(p, side, row, col) ==
    IF "available" \notin Table(p, side).cells[row][col] \/ p.endDate # NULL
    THEN p
    ELSE [p EXCEPT !.tables.hover =
                       [date |-> ClickedDate(p, side, row, col),
                        startDate |-> p.startDate]]

\* whether a cell of a table carries in-range: as rendered, or as the last
\* hover since the render left it
HasInRange(p, side, row, col) ==
    IF p.tables.hover = NULL
    THEN "in-range" \in Table(p, side).cells[row][col]
    ELSE HoverInRange(ClickedDate(p, side, row, col),
                      p.tables.hover.startDate, p.tables.hover.date)

monthOrYearChangedDayOne(p, side, month, year) ==
    updateCalendars(
        IF side = "left"
        THEN [p EXCEPT
                !.leftCalendar.month = Local(year, month, 1),
                !.rightCalendar.month =
                    IF p.linkedCalendars
                    THEN PlusMonths(Local(year, month, 1), 1) ELSE @]
        ELSE [p EXCEPT
                !.rightCalendar.month = Local(year, month, 1),
                !.leftCalendar.month =
                    IF p.linkedCalendars
                    THEN PlusMonths(Local(year, month, 1), -1) ELSE @])

monthOrYearChanged(p, side, month, year) ==
    LET newDate == Local(year, month, 1)
    IN  updateCalendars(
            IF side = "left"
            THEN [p EXCEPT
                    !.leftCalendar.month = SetDay(newDate, 2),
                    !.rightCalendar.month =
                        IF p.linkedCalendars
                        THEN PlusMonths(SetDay(newDate, 2), 1) ELSE @]
            ELSE [p EXCEPT
                    !.rightCalendar.month = SetDay(newDate, 2),
                    !.leftCalendar.month =
                        IF p.linkedCalendars
                        THEN PlusMonths(SetDay(newDate, 2), -1) ELSE @])

\* the first half of timeChanged: the side's selects give the time of the
\* start (and of the end in single-date mode) or of the end, whose set(...)
\* throws when it is null
TimeAssigned(p, side) ==
    IF side = "left"
    THEN [p EXCEPT
            !.startDate = WithSelects(p, @, p.times.left.value),
            !.endDate = IF p.singleDatePicker
                        THEN WithSelects(p, p.startDate, p.times.left.value)
                        ELSE @]
    ELSE IF p.endDate = NULL THEN [p EXCEPT !.threw = TRUE]
    ELSE [p EXCEPT !.endDate = WithSelects(p, @, p.times.right.value)]

timeChanged(p, side) ==
    renderTimePickers(updateFormInputs(updateCalendars(TimeAssigned(p, side))))

\* the array index a property key is, for the labels the host configures: a
\* canonical numeric string is an array index, any other string is not
ArrayIndex(label) ==
    CASE label = "2023" -> 2023
      [] label = "2024" -> 2024
      [] OTHER -> NAN

LeastIndex(newRanges, S) ==
    CHOOSE i \in S : \A j \in S :
        ArrayIndex(newRanges[i].label) <= ArrayIndex(newRanges[j].label)

RECURSIVE Ascending(_, _)
Ascending(newRanges, S) ==
    IF S = {} THEN <<>>
    ELSE <<newRanges[LeastIndex(newRanges, S)]>>
         \o Ascending(newRanges, S \ {LeastIndex(newRanges, S)})

IsNamed(range) == ArrayIndex(range.label) = NAN

\* for (const label in newRanges): the keys that are array indices in
\* ascending order, then the other keys in the order they were created
ForIn(newRanges) ==
    Ascending(newRanges,
              {i \in 1..Len(newRanges) : ~IsNamed(newRanges[i])})
    \o SelectSeq(newRanges, IsNamed)

\* the stored presets: their endpoints at the start and at the end of the
\* day, unless the time picker is on
RangesOf(p, entries) ==
    [i \in 1..Len(entries) |->
        [label |-> entries[i].label,
         start |-> IF p.timePicker THEN entries[i].start
                   ELSE StartOfDay(entries[i].start),
         end   |-> IF p.timePicker THEN entries[i].end
                   ELSE EndOfDay(entries[i].end)]]

\* this.ranges is filled in the for-in order of newRanges, and is an object
\* whose own for-in order is then that same order
updateRanges(p, newRanges) ==
    IF p.threw THEN p
    ELSE [p EXCEPT !.ranges = RangesOf(p, ForIn(newRanges))]

\* texts are sequences of characters
Digits == <<"0", "1", "2", "3", "4", "5", "6", "7", "8", "9">>
Pad2(n) == <<Digits[((n \div 10) % 10) + 1], Digits[(n % 10) + 1]>>

\* locale.format and locale.separator
LocaleFormat == <<"d", "d", "/", "M", "M", "/", "y", "y", "y", "y">>
Separator == <<" ", "-", " ">>

\* dt.toFormat('dd/MM/yyyy')
toFormat(dt) ==
    Pad2(dt.day) \o <<"/">> \o Pad2(dt.month) \o <<"/">>
    \o Pad2(dt.year \div 100) \o Pad2(dt.year % 100)

IsDigits(text) == \A i \in 1..Len(text) : \E d \in 1..10 : Digits[d] = text[i]
DigitOf(c) == (CHOOSE d \in 1..10 : Digits[d] = c) - 1

RECURSIVE IntOf(_)
IntOf(text) ==
    IF text = <<>> THEN 0
    ELSE 10 * IntOf(SubSeq(text, 1, Len(text) - 1)) + DigitOf(text[Len(text)])

INVALID == [invalid |-> TRUE]

DateOfUnits(y, m, d) ==
    IF m \in 1..12 /\ d >= 1 /\ d <= DaysInMonth(y, IF m \in 1..12 THEN m ELSE 1)
    THEN Local(y, m, d) ELSE INVALID

\* DateTime.fromFormat(text, 'dd/MM/yyyy'): the whole text is two digits,
\* a slash, two digits, a slash and four digits, and they name a day that
\* exists
fromFormat(text) ==
    IF /\ Len(text) = Len(LocaleFormat)
       /\ text[3] = "/" /\ text[6] = "/"
       /\ IsDigits(SubSeq(text, 1, 2) \o SubSeq(text, 4, 5) \o SubSeq(text, 7, 10))
    THEN DateOfUnits(IntOf(SubSeq(text, 7, 10)), IntOf(SubSeq(text, 4, 5)),
                     IntOf(SubSeq(text, 1, 2)))
    ELSE INVALID

StartsAt(val, sep, k) ==
    k + Len(sep) - 1 <= Len(val) /\ SubSeq(val, k, k + Len(sep) - 1) = sep

\* val.includes(sep)
Includes(val, sep) == \E k \in 1..Len(val) : StartsAt(val, sep, k)

FirstAt(val, sep) ==
    CHOOSE k \in 1..Len(val) :
        StartsAt(val, sep, k) /\ \A j \in 1..(k - 1) : ~StartsAt(val, sep, j)

\* val.split(sep)
RECURSIVE Split(_, _)
Split(val, sep) ==
    IF ~Includes(val, sep) THEN <<val>>
    ELSE <<SubSeq(val, 1, FirstAt(val, sep) - 1)>>
         \o Split(SubSeq(val, FirstAt(val, sep) + Len(sep), Len(val)), sep)

Assigned(p, start, end) ==
    IF start # INVALID /\ end # INVALID
    THEN setEndDate(setStartDate(p, start), end) ELSE p

\* elementChanged of a picker without the time picker (dtFormat is
\* locale.format), the input holding val
elementChanged(p, val) ==
    IF Len(val) < Len(LocaleFormat) THEN p
    ELSE IF p.singleDatePicker
    THEN updateView(Assigned(p, fromFormat(val), fromFormat(val)))
    ELSE IF Includes(val, Separator)
    THEN updateView(Assigned(p, fromFormat(Split(val, Separator)[1]),
                                fromFormat(Split(val, Separator)[2])))
    ELSE updateView(p)

\* new DateRangePicker(element, options)
Construct(options) == updateMonthsInView(applyOptions(Fresh, options))


-----------------------------------------------------------------------------
(* The picker under the user's gestures *)

Sides == {"left", "right"}

Date(y, m, d) == [year |-> y, month |-> m, day |-> d]
At(c, h, mi, sec, ms) ==
    [year |-> c.year, month |-> c.month, day |-> c.day,
     hour |-> h, minute |-> mi, second |-> sec, millisecond |-> ms]

\* options = {}
NoOptions ==
    [startDate |-> UNDEFINED, endDate |-> UNDEFINED,
     minDate |-> UNDEFINED, maxDate |-> UNDEFINED, maxSpan |-> UNDEFINED,
     singleDatePicker |-> {}, timePicker |-> {}, timePickerSeconds |-> {},
     timePickerIncrement |-> UNDEFINED, timePicker24Hour |-> {},
     autoApply |-> {}, autoUpdateInput |-> {},
     linkedCalendars |-> {}, showDropdowns |-> {},
     showCustomRangeLabel |-> {}, firstDay |-> UNDEFINED,
     isInvalidDate |-> {}]

\* the configurations the picker is constructed with
Configs ==
    { [NoOptions EXCEPT !.linkedCalendars = {TRUE}],
      NoOptions,
      [NoOptions EXCEPT !.linkedCalendars = {TRUE}, !.singleDatePicker = {TRUE}],
      [NoOptions EXCEPT !.linkedCalendars = {TRUE}, !.showDropdowns = {TRUE},
                        !.maxDate = At(Date(2024, 4, 20), 0, 0, 0, 0)],
      [NoOptions EXCEPT !.linkedCalendars = {TRUE},
                        !.maxSpan = [days |-> 7],
                        !.startDate = At(Date(2024, 3, 11), 0, 0, 0, 0),
                        !.endDate = At(Date(2024, 3, 11), 0, 0, 0, 0),
                        !.minDate = At(Date(2024, 3, 10), 0, 0, 0, 0),
                        !.maxDate = At(Date(2024, 3, 25), 0, 0, 0, 0)],
      [NoOptions EXCEPT !.autoApply = {TRUE}],
      [NoOptions EXCEPT !.singleDatePicker = {TRUE}, !.autoApply = {TRUE}],
      [NoOptions EXCEPT !.linkedCalendars = {TRUE},
                        !.maxSpan = [days |-> 7],
                        !.isInvalidDate = {Date(2024, 3, 20)}] }

\* the days whose cells the user clicks
ClickDays ==
    {Date(2024, 3, 5), Date(2024, 3, 12), Date(2024, 3, 20), Date(2024, 4, 2)}

\* prev and next stay within these months
NavFirst == [year |-> 2024, month |-> 2]
NavSpan  == 3

\* what the user picks in the month and year dropdowns
DropMonths == {4}
DropYears  == {2023, 2024}

MonthIndex(dt) == dt.year * 12 + dt.month - 1

\* both anchors are within the months the navigation is kept to
InWindow(p) ==
    \A side \in Sides :
        /\ MonthIndex(Calendar(p, side).month) >= MonthIndex(NavFirst)
        /\ MonthIndex(Calendar(p, side).month) <= MonthIndex(NavFirst) + NavSpan

\* a handler starts with no callback invocation and no exception of its own
Begin(p) == [p EXCEPT !.called = <<>>, !.threw = FALSE]

Init == drp \in {Construct(o) : o \in Configs}

\* a click on, or the focus of, the element the picker is attached to
Show == drp' = show(Begin(drp))

Toggle == drp' = toggle(Begin(drp))

\* Tab, Enter or Escape on the element
Keydown == drp' = hide(Begin(drp))

OutsideClick ==
    /\ drp.isShowing
    /\ drp' = hide(Begin(drp))

ClickApply ==
    /\ drp.isShowing
    /\ ~drp.applyDisabled
    /\ drp' = clickApply(Begin(drp))

ClickCancel ==
    /\ drp.isShowing
    /\ drp' = clickCancel(Begin(drp))

\* a click on a cell that shows one of ClickDays
\* how many cells after its [0][0] a side's grid shows the day, if it does
CellOfDay(p, side, day) ==
    DaysFromCivil(day.year, day.month, day.day)
    - DayNum(ClickedDate(p, side, 0, 0))

\* every select of the side that a handler reads shows a value
Readable(p, value) ==
    /\ value.hour # NAN
    /\ value.minute # NAN
    /\ p.timePickerSeconds => value.second # NAN

ClickDateAt(side, row, col) ==
    /\ drp.isShowing
    /\ drp.tables.bound
    /\ drp.timePicker => Readable(drp, TimeSelects(drp, side).value)
    /\ "available" \in Table(drp, side).cells[row][col]
    /\ drp' = clickDate(Begin(drp), side, row, col)

\* a click on the cell of a side that shows the day
ClickDateOf(side, day) ==
    /\ drp.isShowing
    /\ drp.tables.bound
    /\ \E i \in {CellOfDay(drp, side, day)} \cap 0..41 :
        /\ Civil(ClickedDate(drp, side, i \div 7, i % 7)) = day
        /\ ClickDateAt(side, i \div 7, i % 7)

ClickDate ==
    \E side \in Sides, day \in ClickDays : ClickDateOf(side, day)

ClickPrevOn(side) ==
    /\ drp.isShowing
    /\ drp.tables.bound
    /\ Table(drp, side).prev
    /\ drp' = clickPrev(Begin(drp), side)

ClickPrev ==
    \E side \in Sides : ClickPrevOn(side) /\ InWindow(drp')

ClickNextOn(side) ==
    /\ drp.isShowing
    /\ drp.tables.bound
    /\ Table(drp, side).next
    /\ drp' = clickNext(Begin(drp), side)

ClickNext ==
    \E side \in Sides : ClickNextOn(side) /\ InWindow(drp')

\* the year the year dropdown shows: the current one when it is listed, the
\* first one listed otherwise
ShownYear(t) ==
    IF t.year >= t.yearOptions.lo /\ t.year <= t.yearOptions.hi
    THEN t.year ELSE t.yearOptions.lo

\* one of the two dropdowns of a side is changed; the other keeps its value
MonthOrYearChangedTo(side, month, year) ==
    /\ drp.isShowing
    /\ drp.showDropdowns
    /\ drp.tables.bound
    /\ drp' = monthOrYearChanged(Begin(drp), side, month, year)

\* the user picks one of months among the enabled options of the month
\* dropdown, or one of years among the options of the year dropdown
MonthOrYearChangedAmong(months, years) ==
    \E side \in Sides :
        /\ drp.showDropdowns
        /\ drp.tables.bound
        /\ \E t \in {Table(drp, side)} :
            /\ t.yearOptions.lo <= t.yearOptions.hi
            /\ \/ \E m \in (t.monthOptions \cap months) \ {t.month} :
                    MonthOrYearChangedTo(side, m, ShownYear(t))
               \/ \E y \in (t.yearOptions.lo .. t.yearOptions.hi) \cap years :
                    /\ y # ShownYear(t)
                    /\ MonthOrYearChangedTo(side, t.month, y)

MonthOrYearChanged == MonthOrYearChangedAmong(DropMonths, DropYears)

Next ==
    \/ Show
    \/ Toggle
    \/ Keydown
    \/ OutsideClick
    \/ ClickApply
    \/ ClickCancel
    \/ ClickDate
    \/ ClickPrev
    \/ ClickNext
    \/ MonthOrYearChanged

Spec == Init /\ [][Next]_vars

-----------------------------------------------------------------------------
(* The picker with its time selects under the user's gestures *)

\* the picker is constructed with a 12-hour time picker, and with a 24-hour
\* one in single-date mode, without and with autoApply, and in single-date
\* mode with autoApply and no time picker
TimePickerConfigs ==
    { [NoOptions EXCEPT !.timePicker = {TRUE}, !.linkedCalendars = {TRUE}],
      [NoOptions EXCEPT !.timePicker = {TRUE}, !.timePicker24Hour = {TRUE},
                        !.linkedCalendars = {TRUE},
                        !.singleDatePicker = {TRUE}],
      [NoOptions EXCEPT !.timePicker = {TRUE}, !.timePicker24Hour = {TRUE},
                        !.linkedCalendars = {TRUE},
                        !.singleDatePicker = {TRUE}, !.autoApply = {TRUE}],
      [NoOptions EXCEPT !.linkedCalendars = {TRUE},
                        !.singleDatePicker = {TRUE}, !.autoApply = {TRUE}] }

\* the days whose cells the user clicks
TimedClickDays == {Date(2024, 3, 12), Date(2024, 3, 20)}

\* the options the user picks in the selects
TimeFields == {"hour", "ampm"}
TimePicks == [hour |-> {11}, ampm |-> {"AM", "PM"}]

\* the options of the hour select or of the AM/PM select of a side that
\* the last render left enabled
Selectable(p, side, field) ==
    IF field = "hour"
    THEN EnabledHours(p, TimeSelects(p, side).selected,
                      CurrentMinDate(side, p.times.startDate, p.minDate),
                      TimeMaxDate(p.times.startDate, p.maxDate, p.maxSpan))
    ELSE IF p.timePicker24Hour THEN {}
    ELSE EnabledAmPm(TimeSelects(p, side).selected,
                     CurrentMinDate(side, p.times.startDate, p.minDate),
                     TimeMaxDate(p.times.startDate, p.maxDate, p.maxSpan))

\* the select of a side shows another of its options
SelectChanged(p, side, field, v) ==
    [p EXCEPT !.times[side].value[field] = v]

\* the user picks an enabled option of a select that is not disabled
Picks(side, field, v) ==
    /\ drp.isShowing
    /\ drp.times.rendered
    /\ ~TimeSelects(drp, side).disabled
    /\ v \in Selectable(drp, side, field)
    /\ v # TimeSelects(drp, side).value[field]

\* the change of a select that carries the handler
TimeChangedTo(side, field, v) ==
    /\ Picks(side, field, v)
    /\ drp.times.bound
    /\ Readable(drp, TimeSelects(drp, side).value)
    /\ drp' = timeChanged(SelectChanged(Begin(drp), side, field, v), side)

TimeChanged ==
    \E side \in Sides, field \in TimeFields :
        \E v \in TimePicks[field] : TimeChangedTo(side, field, v)

\* the change of a select that was rendered after the handlers were bound:
\* no handler runs, the select keeps the value (the user does so with the
\* AM/PM select of the left side)
TimeSelected ==
    \E v \in TimePicks["ampm"] :
        /\ Picks("left", "ampm", v)
        /\ ~drp.times.bound
        /\ drp' = SelectChanged(drp, "left", "ampm", v)

TimedClickDate ==
    \E side \in Sides, day \in TimedClickDays : ClickDateOf(side, day)

NextTimed ==
    \/ Show
    \/ OutsideClick
    \/ ClickApply
    \/ ClickCancel
    \/ TimedClickDate
    \/ ClickNext
    \/ TimeChanged
    \/ TimeSelected

SpecTimed ==
    drp \in {Construct(o) : o \in TimePickerConfigs} /\ [][NextTimed]_vars

-----------------------------------------------------------------------------
(* The picker under the pointer: clicks on dates and moves over them *)

\* the picker is constructed linked, and with independent calendars
HoverConfigs ==
    { [NoOptions EXCEPT !.linkedCalendars = {TRUE}], NoOptions }

\* the days whose cells the pointer clicks and moves over
HoverDays == {Date(2024, 3, 5), Date(2024, 3, 12), Date(2024, 3, 20)}

\* the pointer enters a cell that carries available
HoverDateAt(side, row, col) ==
    /\ drp.isShowing
    /\ drp.tables.bound
    /\ "available" \in Table(drp, side).cells[row][col]
    /\ drp' = hoverDate(Begin(drp), side, row, col)

\* the pointer enters the cell of a side that shows the day
HoverDateOf(side, day) ==
    /\ drp.isShowing
    /\ drp.tables.bound
    /\ \E i \in {CellOfDay(drp, side, day)} \cap 0..41 :
        /\ Civil(ClickedDate(drp, side, i \div 7, i % 7)) = day
        /\ HoverDateAt(side, i \div 7, i % 7)

HoverDate ==
    \E side \in Sides, day \in HoverDays : HoverDateOf(side, day)

HoverClickDate ==
    \E side \in Sides, day \in HoverDays : ClickDateOf(side, day)

NextHover ==
    \/ Show
    \/ OutsideClick
    \/ HoverClickDate
    \/ HoverDate

SpecHover == drp \in {Construct(o) : o \in HoverConfigs} /\ [][NextHover]_vars

-----------------------------------------------------------------------------

(* The picker with dropdowns and a selection older than minYear *)

\* the picker is constructed with dropdowns and a selection in 1920, with
\* linked and with independent calendars
DropdownConfigs ==
    { [NoOptions EXCEPT !.showDropdowns = {TRUE}, !.linkedCalendars = l,
                        !.startDate = At(Date(1920, 5, 10), 0, 0, 0, 0),
                        !.endDate = At(Date(1920, 5, 20), 0, 0, 0, 0)] :
        l \in {{}, {TRUE}} }

\* what the user picks in the month and year dropdowns
OldMonths == {4, 6, 7}
OldYears  == {1921, 2024}

OldMonthOrYearChanged == MonthOrYearChangedAmong(OldMonths, OldYears)

NextDropdown ==
    \/ Show
    \/ OutsideClick
    \/ OldMonthOrYearChanged

SpecDropdown ==
    drp \in {Construct(o) : o \in DropdownConfigs} /\ [][NextDropdown]_vars

-----------------------------------------------------------------------------

(* The 12-hour time picker at every hour of the day *)

\* the hours of the day the picker is constructed at
SubjectHours == 0..23

\* the picker is constructed with a 12-hour time picker, its start at one of
\* the hours of 2024-03-15 and its end on the day after
HourConfigs ==
    { [NoOptions EXCEPT !.timePicker = {TRUE}, !.linkedCalendars = {TRUE},
                        !.startDate = At(Date(2024, 3, 15), h, 0, 0, 0),
                        !.endDate = At(Date(2024, 3, 16), 12, 0, 0, 0)] :
        h \in SubjectHours }

\* the options the user picks in the hour and AM/PM selects of the left side
HourPicks == [hour |-> 1..12, ampm |-> {"AM", "PM"}]

HourChanged ==
    \E field \in TimeFields :
        \E v \in HourPicks[field] : TimeChangedTo("left", field, v)

NextHours ==
    \/ Show
    \/ OutsideClick
    \/ HourChanged

SpecHours == drp \in {Construct(o) : o \in HourConfigs} /\ [][NextHours]_vars

-----------------------------------------------------------------------------

(* The picker between limits under clicks on any cell *)

\* the picker is constructed with a maxDate, with a minDate, a maxDate and a
\* maxSpan, and with a maxSpan and an invalid date
BoundConfigs ==
    { [NoOptions EXCEPT !.linkedCalendars = {TRUE},
                        !.maxDate = At(Date(2024, 4, 20), 0, 0, 0, 0)],
      [NoOptions EXCEPT !.linkedCalendars = {TRUE},
                        !.maxSpan = [days |-> 7],
                        !.startDate = At(Date(2024, 3, 11), 0, 0, 0, 0),
                        !.endDate = At(Date(2024, 3, 11), 0, 0, 0, 0),
                        !.minDate = At(Date(2024, 3, 10), 0, 0, 0, 0),
                        !.maxDate = At(Date(2024, 3, 25), 0, 0, 0, 0)],
      [NoOptions EXCEPT !.linkedCalendars = {TRUE},
                        !.maxSpan = [days |-> 7],
                        !.isInvalidDate = {Date(2024, 3, 20)}] }

\* the days whose cells the user clicks, available or not
BoundClickDays ==
    {Date(2024, 3, 5), Date(2024, 3, 12), Date(2024, 3, 20), Date(2024, 4, 25)}

\* a click on a cell that does not carry available
ClickDisabledAt(side, row, col) ==
    /\ "available" \notin Table(drp, side).cells[row][col]
    /\ drp' = clickDate(Begin(drp), side, row, col)

ClickDisabledOf(side, day) ==
    /\ drp.isShowing
    /\ drp.tables.bound
    /\ \E i \in {CellOfDay(drp, side, day)} \cap 0..41 :
        /\ Civil(ClickedDate(drp, side, i \div 7, i % 7)) = day
        /\ ClickDisabledAt(side, i \div 7, i % 7)

ClickDisabled ==
    \E side \in Sides, day \in BoundClickDays : ClickDisabledOf(side, day)

BoundClickDate ==
    \E side \in Sides, day \in BoundClickDays : ClickDateOf(side, day)

NextBounds ==
    \/ Show
    \/ OutsideClick
    \/ ClickApply
    \/ BoundClickDate
    \/ ClickDisabled

SpecBounds ==
    drp \in {Construct(o) : o \in BoundConfigs} /\ [][NextBounds]_vars

-----------------------------------------------------------------------------

(* The picker constructed with dates and limits *)

\* the days of the startDate and endDate options, the start not after the
\* end, and the minDate and maxDate options, the minDate before the maxDate
OptionDays == {1, 5, 12, 15, 20, 28}
OptionLimits ==
    { [minDate |-> minD, maxDate |-> maxD] :
        minD \in {UNDEFINED, At(Date(2024, 3, 10), 0, 0, 0, 0)},
        maxD \in {UNDEFINED, At(Date(2024, 3, 25), 0, 0, 0, 0)} }

OptionPairs == {d \in OptionDays \X OptionDays : d[1] <= d[2]}

DateConfigs ==
    { [NoOptions EXCEPT !.linkedCalendars = {TRUE},
                        !.startDate = At(Date(2024, 3, d[1]), 0, 0, 0, 0),
                        !.endDate = At(Date(2024, 3, d[2]), 0, 0, 0, 0),
                        !.minDate = l.minDate,
                        !.maxDate = l.maxDate] :
        d \in OptionPairs, l \in OptionLimits }

SpecConstruct == drp \in {Construct(o) : o \in DateConfigs} /\ [][Show]_vars

-----------------------------------------------------------------------------

(* The 24-hour time picker with a maxSpan *)

\* the picker is constructed with a 24-hour time picker and a maxSpan of
\* one day, its end within the span, without a maxDate and with one before
\* the start plus the span
SpanConfigs ==
    { [NoOptions EXCEPT !.timePicker = {TRUE}, !.timePicker24Hour = {TRUE},
                        !.linkedCalendars = {TRUE},
                        !.maxSpan = [days |-> 1],
                        !.maxDate = maxD,
                        !.startDate = At(Date(2024, 3, 15), 10, 0, 0, 0),
                        !.endDate = At(Date(2024, 3, 16), 8, 0, 0, 0)] :
        maxD \in {UNDEFINED, At(Date(2024, 3, 16), 9, 0, 0, 0)} }

\* the days whose cells the user clicks, and the hours picked in the selects
SpanClickDays == {Date(2024, 3, 15), Date(2024, 3, 16)}
SpanHours == {9, 20}

SpanClickDate ==
    \E side \in Sides, day \in SpanClickDays : ClickDateOf(side, day)

SpanTimeChanged ==
    \E side \in Sides, v \in SpanHours : TimeChangedTo(side, "hour", v)

NextSpan ==
    \/ Show
    \/ OutsideClick
    \/ SpanClickDate
    \/ SpanTimeChanged

SpecSpan == drp \in {Construct(o) : o \in SpanConfigs} /\ [][NextSpan]_vars

-----------------------------------------------------------------------------

(* The picker under the host's calls and the text typed in its input *)

\* the picker is constructed linked with the custom label shown, between a
\* minDate and a maxDate, and in single-date mode
ApiConfigs ==
    { [NoOptions EXCEPT !.linkedCalendars = {TRUE},
                        !.showCustomRangeLabel = {TRUE}],
      [NoOptions EXCEPT !.linkedCalendars = {TRUE},
                        !.minDate = At(Date(2024, 3, 10), 0, 0, 0, 0),
                        !.maxDate = At(Date(2024, 3, 25), 0, 0, 0, 0)],
      [NoOptions EXCEPT !.linkedCalendars = {TRUE},
                        !.singleDatePicker = {TRUE}] }

\* the instants the host passes to setStartDate and setEndDate
ApiDates ==
    { At(Date(2024, 3, 5), 9, 0, 0, 0), At(Date(2024, 3, 12), 9, 0, 0, 0),
      At(Date(2024, 3, 28), 9, 0, 0, 0) }

\* the presets the host passes to updateRanges, in the order it writes them
Preset(label, from, to) ==
    [label |-> label, start |-> At(from, 9, 0, 0, 0),
     end |-> At(to, 9, 0, 0, 0)]

PresetTables ==
    { << Preset("First week", Date(2024, 3, 5), Date(2024, 3, 12)),
         Preset("2024", Date(2024, 3, 5), Date(2024, 3, 12)) >>,
      << Preset(CustomRangeLabel, Date(2024, 3, 5), Date(2024, 3, 12)),
         Preset("Second week", Date(2024, 3, 12), Date(2024, 3, 28)),
         Preset("Fortnight", Date(2024, 3, 12), Date(2024, 3, 28)) >> }

\* the texts the user leaves in the input: a range, an inverted range, a
\* single date, a partial range, a range with a day that does not exist, a
\* range with a letter in it, a range followed by a third part, a short text
Typed(from, to) == toFormat(Local(2024, 3, from)) \o Separator
                   \o toFormat(Local(2024, 3, to))

Texts ==
    { Typed(5, 12),
      Typed(28, 12),
      toFormat(Local(2024, 3, 12)),
      SubSeq(Typed(5, 12), 1, 17),
      toFormat(Local(2024, 3, 5)) \o Separator
          \o <<"3", "1", "/", "0", "2", "/", "2", "0", "2", "4">>,
      <<"1", "x">> \o SubSeq(Typed(12, 28), 3, 23),
      Typed(12, 28) \o Separator \o toFormat(Local(2024, 3, 5)),
      SubSeq(Typed(5, 12), 1, 5) }

SetStartDate == \E date \in ApiDates : drp' = setStartDate(Begin(drp), date)

SetEndDate == \E date \in ApiDates : drp' = setEndDate(Begin(drp), date)

UpdateRanges ==
    \E newRanges \in PresetTables : drp' = updateRanges(Begin(drp), newRanges)

\* a keyup in the input
ElementChangedTo(val) ==
    /\ ~drp.timePicker
    /\ drp' = elementChanged(Begin(drp), val)

ElementChanged == \E val \in Texts : ElementChangedTo(val)

NextApi ==
    \/ Show
    \/ ClickApply
    \/ ClickCancel
    \/ SetStartDate
    \/ SetEndDate
    \/ UpdateRanges
    \/ ElementChanged

SpecApi == drp \in {Construct(o) : o \in ApiConfigs} /\ [][NextApi]_vars

-----------------------------------------------------------------------------
(* The picker with presets under clicks on dates *)

\* the days whose cells the user clicks
PresetClickDays == {Date(2024, 3, 5), Date(2024, 3, 12), Date(2024, 3, 20)}

PresetClickDate ==
    \E side \in Sides, day \in PresetClickDays : ClickDateOf(side, day)

NextPresets ==
    \/ Show
    \/ OutsideClick
    \/ UpdateRanges
    \/ PresetClickDate

SpecPresets ==
    drp \in {Construct(o) : o \in ApiConfigs} /\ [][NextPresets]_vars

-----------------------------------------------------------------------------


(* The picker opened on a wide range of months and selections *)

OpenYears == {2000, 2023, 2024, 2100}
OpenSpans == {1, 2, 3, 40}

\* a month of OpenYears under each first day of the week, with the selection
\* on its 15th (linked) or from its 15th to 40 days later (not linked)
MonthConfigs ==
    { [NoOptions EXCEPT
          !.firstDay = [value |-> fd],
          !.linkedCalendars = {linked},
          !.startDate = At(Date(y, m, 15), 0, 0, 0, 0),
          !.endDate = IF linked THEN At(Date(y, m, 15), 0, 0, 0, 0)
                      ELSE PlusDays(At(Date(y, m, 15), 0, 0, 0, 0), 40)] :
        y \in OpenYears, m \in 1..12, fd \in 0..6, linked \in BOOLEAN }

\* selections with a time of day, from the last second of 27 Feb 2024 to the
\* first second of a day of OpenSpans later
TimedConfigs ==
    { [NoOptions EXCEPT
          !.firstDay = [value |-> fd],
          !.linkedCalendars = {linked},
          !.timePicker = {TRUE},
          !.startDate = At(Date(2024, 2, 27), 23, 59, 59, 0),
          !.endDate = PlusDays(At(Date(2024, 2, 27), 0, 0, 0, 0), k)] :
        fd \in {0, 1}, linked \in BOOLEAN, k \in OpenSpans }

InitOpen == drp \in {Construct(o) : o \in MonthConfigs \cup TimedConfigs}

SpecOpen == InitOpen /\ [][Show]_vars

-----------------------------------------------------------------------------
(* Properties of the calendar grid and of its cells *)

\* the next civil day, by the lengths of the months
Tomorrow(c) ==
    IF c.day < DaysInMonth(c.year, c.month) THEN [c EXCEPT !.day = @ + 1]
    ELSE IF c.month < 12 THEN [year |-> c.year, month |-> c.month + 1, day |-> 1]
    ELSE [year |-> c.year + 1, month |-> 1, day |-> 1]

\* the weekday of a civil day, 0 = Sunday ... 6 = Saturday, by the
\* month-offset table
MonthOffsets == <<0, 3, 2, 5, 0, 3, 5, 1, 4, 6, 2, 4>>
TableYear(y, m) == IF m < 3 THEN y - 1 ELSE y
WeekdayOfYear(yy, m, d) ==
    (yy + yy \div 4 - yy \div 100 + yy \div 400 + MonthOffsets[m] + d) % 7
SundayWeekday(c) == WeekdayOfYear(TableYear(c.year, c.month), c.month, c.day)

\* cell i of a grid read row-major
CellAt(calendar, i) == calendar[i \div 7][i % 7]

\* the matrix of a side, the anchor and the first day it was built with
GridOf(side) == Matrix(Calendar(drp, side).calendar)
AnchorOf(side) == Calendar(drp, side).calendar.monthDT
FirstDayOf(side) == Calendar(drp, side).calendar.firstDay

\* the days of the previous month that lead the grid
LeadingDays(monthDT, firstDay) ==
    (SundayWeekday(Date(monthDT.year, monthDT.month, 1)) - firstDay + 7) % 7

ConsecutiveFrom(calendar, monthDT, firstDay) ==
    /\ DOMAIN calendar = Rows
    /\ \A row \in Rows : DOMAIN calendar[row] = Cols
    /\ \A i \in 0..40 :
          Civil(CellAt(calendar, i + 1)) = Tomorrow(Civil(CellAt(calendar, i)))
    /\ Civil(CellAt(calendar, LeadingDays(monthDT, firstDay)))
          = Date(monthDT.year, monthDT.month, 1)
    /\ (monthDT.year = 2024 /\ monthDT.month = 3 /\ firstDay = 1)
          => /\ Civil(calendar[0][0]) = Date(2024, 2, 26)
             /\ Civil(calendar[5][6]) = Date(2024, 4, 7)

\* C1: a built calendar is 6 rows of 7 cells whose days, read row-major, are
\* 42 consecutive civil days, day 1 of the anchor's month being cell
\* (weekday(day 1) - firstDay + 7) mod 7; March 2024 with firstDay 1 runs
\* from 26 Feb 2024 to 7 Apr 2024
C1_ConsecutiveDays ==
    drp.tables.rendered =>
        \A side \in Sides :
            ConsecutiveFrom(GridOf(side), AnchorOf(side), FirstDayOf(side))

C1_Witness ==
    /\ drp.tables.rendered
    /\ AnchorOf("left").year = 2024 /\ AnchorOf("left").month = 3
    /\ FirstDayOf("left") = 1
    /\ Civil(GridOf("left")[0][0]) = Date(2024, 2, 26)
    /\ Civil(GridOf("left")[5][6]) = Date(2024, 4, 7)

\* C2: the weekdays of row 0 of a built calendar are firstDay, firstDay + 1,
\* ... (mod 7), for every anchor and every firstDay in 0..6
C2_FirstRowWeekdays ==
    drp.tables.rendered =>
        \A side \in Sides, col \in Cols :
            SundayWeekday(Civil(GridOf(side)[0][col]))
                = (FirstDayOf(side) + col) % 7

C2_Witness ==
    /\ drp.tables.rendered
    /\ FirstDayOf("right") = 3
    /\ AnchorOf("right").year = 2101 /\ AnchorOf("right").month = 1
    /\ SundayWeekday(Civil(GridOf("right")[0][0])) = 3
    /\ SundayWeekday(Civil(GridOf("right")[0][6])) = 2

OffMonthFlagged(classes, date, monthDT) ==
    /\ date.month # monthDT.month => {"off", "ends"} \subseteq classes
    /\ date.month = monthDT.month => "ends" \notin classes

\* C3: cell [1][1] of a built calendar has the anchor's month and year, and
\* the rendered cells that carry the off-month classes are exactly those whose
\* month is not the anchor's
C3_OffMonth ==
    drp.tables.rendered =>
        \A side \in Sides :
            /\ GridOf(side)[1][1].month = AnchorOf(side).month
            /\ GridOf(side)[1][1].year = AnchorOf(side).year
            /\ \A row \in Rows, col \in Cols :
                  OffMonthFlagged(Table(drp, side).cells[row][col],
                                  GridOf(side)[row][col], AnchorOf(side))

C3_Witness ==
    /\ drp.tables.rendered
    /\ AnchorOf("left").year = 2024 /\ AnchorOf("left").month = 2
    /\ "ends" \in Table(drp, "left").cells[0][0]
    /\ "ends" \notin Table(drp, "left").cells[1][1]
    /\ "ends" \in Table(drp, "left").cells[5][6]

StrictlyBetweenDays(date, start, end) ==
    DayNum(start) < DayNum(date) /\ DayNum(date) < DayNum(end)

\* C4: with a complete selection, the rendered cells that carry in-range are
\* exactly those whose day is after the start's day and before the end's day
C4_InRange ==
    (drp.tables.rendered /\ drp.tables.endDate # NULL) =>
        \A side \in Sides, row \in Rows, col \in Cols :
            "in-range" \in Table(drp, side).cells[row][col]
                <=> StrictlyBetweenDays(GridOf(side)[row][col],
                                        drp.tables.startDate, drp.tables.endDate)

C4_Witness ==
    /\ drp.tables.rendered
    /\ drp.timePicker
    /\ drp.tables.startDate = At(Date(2024, 2, 27), 23, 59, 59, 0)
    /\ drp.tables.endDate = At(Date(2024, 3, 1), 0, 0, 0, 0)
    /\ \E row \in Rows, col \in Cols :
          /\ Civil(GridOf("left")[row][col]) = Date(2024, 2, 29)
          /\ "in-range" \in Table(drp, "left").cells[row][col]
    /\ \E row \in Rows, col \in Cols :
          /\ Civil(GridOf("left")[row][col]) = Date(2024, 2, 27)
          /\ "in-range" \notin Table(drp, "left").cells[row][col]

-----------------------------------------------------------------------------
(* Properties of the limits *)

\* a cell's day is before the day of the side's lower limit
BeforeMin(p, side, date, start) ==
    IF side = "left"
    THEN p.minDate # NONE /\ DayNum(date) < DayNum(p.minDate)
    ELSE DayNum(date) < DayNum(start)

Invalid(p, date) == Civil(date) \in p.isInvalidDate

Earlier(a, b) == IF a < b THEN a ELSE b

\* the last day of the span that starts on the start's day
SpanDay(p, start) == DayNum(start) + p.maxSpan.days

\* a cell's day is after the day of the upper limit: the earlier of maxDate
\* and the span's last day while the selection is open, maxDate otherwise
AfterMax(p, date, start, end) ==
    IF end = NULL /\ p.maxSpan # NONE
    THEN IF p.maxDate = NONE THEN DayNum(date) > SpanDay(p, start)
         ELSE DayNum(date) > Earlier(DayNum(p.maxDate), SpanDay(p, start))
    ELSE p.maxDate # NONE /\ DayNum(date) > DayNum(p.maxDate)

SpanCeilingAt(p, side, classes, date, start) ==
    /\ DayNum(date) = SpanDay(p, start) + 1 => "disabled" \in classes
    /\ (DayNum(date) = SpanDay(p, start) /\ "disabled" \in classes)
          => \/ BeforeMin(p, side, date, start)
             \/ Invalid(p, date)
             \/ p.maxDate # NONE /\ DayNum(date) > DayNum(p.maxDate)

\* C5: while the selection is open and maxSpan is set, whatever maxDate is,
\* the rendered cell one day after start + maxSpan is disabled and the cell on
\* start + maxSpan is disabled only by another rule
C5_SpanCeiling ==
    (drp.tables.rendered /\ drp.tables.endDate = NULL /\ drp.maxSpan # NONE) =>
        \A side \in Sides, row \in Rows, col \in Cols :
            SpanCeilingAt(drp, side, Table(drp, side).cells[row][col],
                          GridOf(side)[row][col], drp.tables.startDate)

EffectiveMaxAt(p, side, classes, date, start, end) ==
    /\ AfterMax(p, date, start, end) => "disabled" \in classes
    /\ ("disabled" \in classes /\ ~BeforeMin(p, side, date, start)
          /\ ~Invalid(p, date))
          => AfterMax(p, date, start, end)

\* C6: with maxDate set, the upper limit that disables the rendered cells is
\* the earlier of maxDate and start + maxSpan while the selection is open and
\* maxSpan is set, and maxDate while the selection is complete
C6_EffectiveMax ==
    (drp.tables.rendered /\ drp.maxDate # NONE) =>
        \A side \in Sides, row \in Rows, col \in Cols :
            EffectiveMaxAt(drp, side, Table(drp, side).cells[row][col],
                           GridOf(side)[row][col],
                           drp.tables.startDate, drp.tables.endDate)

DisabledAt(p, side, classes, date, start, end) ==
    /\ "disabled" \in classes
          <=> \/ BeforeMin(p, side, date, start)
              \/ AfterMax(p, date, start, end)
              \/ Invalid(p, date)
    /\ "available" \in classes <=> "disabled" \notin classes

\* C7: a rendered cell is disabled exactly when its day is before the side's
\* lower limit (minDate on the left, the start on the right), or after the
\* upper limit, or isInvalidDate holds of it; it is available otherwise
C7_Disabled ==
    drp.tables.rendered =>
        \A side \in Sides, row \in Rows, col \in Cols :
            DisabledAt(drp, side, Table(drp, side).cells[row][col],
                       GridOf(side)[row][col],
                       drp.tables.startDate, drp.tables.endDate)

-----------------------------------------------------------------------------
(* Properties of the anchors *)

OneMonthApart(p) ==
    p.rightCalendar.month = PlusMonths(p.leftCalendar.month, 1)

\* C8: in linked mode the right anchor is one month after the left anchor
\* after every prev, next and dropdown command
C8_LinkedAnchors ==
    [][(drp.linkedCalendars /\ (ClickPrev \/ ClickNext \/ MonthOrYearChanged))
          => OneMonthApart(drp')]_vars

\* C9: in linked, non-single mode with maxDate set, the right anchor's month
\* is never after maxDate's month
C9_WithinMaxDate ==
    (drp.linkedCalendars /\ ~drp.singleDatePicker /\ drp.maxDate # NONE) =>
        MonthIndex(drp.rightCalendar.month) <= MonthIndex(drp.maxDate)

-----------------------------------------------------------------------------
(* Properties of the selection *)

StartsSelection(side, row, col) ==
    (drp.endDate # NULL /\ ~drp.singleDatePicker /\ ClickDateAt(side, row, col))
        => /\ drp'.endDate = NULL
           /\ drp'.startDate = StartOfDay(ClickedDate(drp, side, row, col))

\* C10: in range mode, a click on an available cell while the selection is
\* complete makes the cell's day the start and leaves the end absent
C10_NewSelection ==
    [][drp.tables.bound =>
          \A side \in Sides, day \in ClickDays :
              \A i \in {CellOfDay(drp, side, day)} \cap 0..41 :
                  StartsSelection(side, i \div 7, i % 7)]_vars

C10_Witness ==
    /\ drp.isShowing
    /\ ~drp.singleDatePicker
    /\ drp.endDate = NULL
    /\ drp.startDate = At(Date(2024, 4, 2), 0, 0, 0, 0)
    /\ Lt(drp.oldEndDate, drp.startDate)

EndsSelection(side, row, col) ==
    (drp.endDate = NULL /\ ~drp.singleDatePicker /\ ClickDateAt(side, row, col))
        => /\ drp'.endDate # NULL
           /\ HasSameDay(drp'.endDate, ClickedDate(drp, side, row, col))
           /\ drp'.startDate = drp.startDate

\* C11: in range mode, a click on an available cell while the end is absent
\* makes the cell's day the end and leaves the start as it was
C11_EndOfSelection ==
    [][drp.tables.bound =>
          \A side \in Sides, day \in ClickDays :
              \A i \in {CellOfDay(drp, side, day)} \cap 0..41 :
                  EndsSelection(side, i \div 7, i % 7)]_vars

SingleCollapsed(side, row, col) ==
    (drp.singleDatePicker /\ ClickDateAt(side, row, col))
        => /\ drp'.endDate # NULL
           /\ HasSameDay(drp'.startDate, ClickedDate(drp, side, row, col))
           /\ HasSameDay(drp'.endDate, ClickedDate(drp, side, row, col))
           /\ ~drp'.applyDisabled

\* C14: in single-date mode the end is present after construction and after
\* every command, and a click on an available cell puts the start and the end
\* on the cell's day and leaves the apply button enabled
C14_SingleCollapse ==
    /\ drp.singleDatePicker => drp.endDate # NULL
    /\ [][/\ drp.singleDatePicker => drp'.endDate # NULL
          /\ drp.tables.bound =>
               \A side \in Sides, day \in ClickDays :
                   \A i \in {CellOfDay(drp, side, day)} \cap 0..41 :
                       SingleCollapsed(side, i \div 7, i % 7)]_vars

C14_Witness ==
    /\ drp.singleDatePicker
    /\ drp.isShowing
    /\ drp.startDate = At(Date(2024, 4, 2), 0, 0, 0, 0)
    /\ drp.endDate = At(Date(2024, 4, 2), 23, 59, 59, 999)
    /\ ~drp.applyDisabled

\* the selection is the pair snapshotted when the picker was opened
Restored(p, old) ==
    /\ p.startDate = old.oldStartDate
    /\ p.endDate = old.oldEndDate

\* C15: a cancel while the picker is open, with the end absent or with edits
\* that were not applied, puts the start and the end back to the pair
\* snapshotted at the opening, closes the picker and invokes no callback
C15_Cancel ==
    [][ClickCancel =>
          /\ Restored(drp', drp)
          /\ ~drp'.isShowing
          /\ drp'.called = <<>>
          /\ drp'.oldStartDate = drp.oldStartDate
          /\ drp'.oldEndDate = drp.oldEndDate]_vars

\* open on an applied pair, a new start picked and no end yet
C15_Witness ==
    /\ drp.isShowing
    /\ drp.endDate = NULL
    /\ drp.startDate = At(Date(2024, 3, 5), 0, 0, 0, 0)
    /\ drp.oldStartDate = At(Date(2024, 3, 12), 0, 0, 0, 0)
    /\ drp.oldEndDate = At(Date(2024, 3, 20), 23, 59, 59, 999)
    /\ ENABLED ClickCancel

\* C16: closing the open picker by an outside click, a toggle or a key puts
\* the start and the end back to the snapshotted pair and invokes no callback
C16_CloseWithoutApply ==
    [][(drp.isShowing /\ (OutsideClick \/ Toggle \/ Keydown)) =>
          /\ Restored(drp', drp)
          /\ drp'.called = <<>>]_vars

SameSelection(p, q) ==
    p.startDate = q.startDate /\ p.endDate = q.endDate

\* C17: apply closes the picker on the current pair; the next opening
\* snapshots that pair; no command changes the snapshot while the picker
\* stays open; and cancel puts the pair back to the snapshot
C17_Committed ==
    [][/\ ClickApply => (~drp'.isShowing /\ SameSelection(drp', drp))
       /\ (~drp.isShowing /\ drp'.isShowing) =>
              (Restored(drp, drp') /\ SameSelection(drp', drp))
       /\ (drp.isShowing /\ drp'.isShowing) =>
              (drp'.oldStartDate = drp.oldStartDate
               /\ drp'.oldEndDate = drp.oldEndDate)
       /\ ClickCancel => Restored(drp', drp)]_vars

\* reopened on an applied pair, edited, cancelled: closed on the applied pair
C17_Witness ==
    /\ ~drp.isShowing
    /\ drp.called = <<>>
    /\ drp.startDate = At(Date(2024, 3, 12), 0, 0, 0, 0)
    /\ drp.endDate = At(Date(2024, 3, 20), 23, 59, 59, 999)
    /\ drp.oldStartDate = drp.startDate
    /\ drp.oldEndDate = drp.endDate

\* C12: whatever the user clicks, picks in the time selects, navigates,
\* applies, cancels or closes, a selection with an end has its start at or
\* before its end
C12_StartBeforeEnd ==
    drp.endDate # NULL => ~Gt(drp.startDate, drp.endDate)

\* C13: after setStartDate, setEndDate or a text typed in the input has
\* assigned the selection, the start is at or before the end
C13_Normalized ==
    [][(SetStartDate \/ SetEndDate \/ ElementChanged) =>
          (drp'.endDate # NULL => ~Gt(drp'.startDate, drp'.endDate))]_vars

\* C19: after setStartDate the start is not before minDate, and after
\* setEndDate the end is not after maxDate
C19_Clamped ==
    [][/\ SetStartDate =>
              (drp.minDate # NONE => ~Lt(drp'.startDate, drp.minDate))
       /\ SetEndDate =>
              (drp.maxDate # NONE => ~Gt(drp'.endDate, drp.maxDate))]_vars

\* the text is a date in the format (single-date mode), or a date, the
\* separator and a date
ExactMatch(p, val) ==
    IF p.singleDatePicker THEN fromFormat(val) # INVALID
    ELSE /\ Len(val) = 2 * Len(LocaleFormat) + Len(Separator)
         /\ fromFormat(SubSeq(val, 1, Len(LocaleFormat))) # INVALID
         /\ StartsAt(val, Separator, Len(LocaleFormat) + 1)
         /\ fromFormat(SubSeq(val, Len(LocaleFormat) + Len(Separator) + 1,
                              Len(val))) # INVALID

\* C20: a text typed in the input that is not exactly format + separator +
\* format (the format alone in single-date mode) leaves the start, the end
\* and the snapshot as they were
C20_ExactTextOnly ==
    [][\A val \in Texts :
          (ElementChangedTo(val) /\ ~ExactMatch(drp, val)) =>
              /\ SameSelection(drp', drp)
              /\ drp'.oldStartDate = drp.oldStartDate
              /\ drp'.oldEndDate = drp.oldEndDate]_vars

\* the presets of the picker are those of a table the host wrote
ConfiguredAs(p, newRanges) == p.ranges = RangesOf(p, ForIn(newRanges))

Matching(p, newRanges) ==
    {i \in 1..Len(newRanges) :
        /\ newRanges[i].label # p.locale.customRangeLabel
        /\ HasSameDay(p.startDate, newRanges[i].start)
        /\ HasSameDay(p.endDate, newRanges[i].end)}

FirstOfTable(newRanges, S) == newRanges[CHOOSE i \in S : \A j \in S : i <= j]

\* the label of the first preset of the table, in the order written, that
\* is on the days of the selection; else the custom label when it is shown
MatchedLabel(p, newRanges) ==
    IF Matching(p, newRanges) # {}
    THEN FirstOfTable(newRanges, Matching(p, newRanges)).label
    ELSE IF p.showCustomRangeLabel THEN p.locale.customRangeLabel
    ELSE NOLABEL

\* the steps that compute the label again: an opening, and a text in the
\* input that is not shorter than the format
LabelComputed ==
    \/ Show
    \/ \E val \in Texts : Len(val) >= Len(LocaleFormat) /\ ElementChangedTo(val)

\* C18: when the label is computed for a selection with an end, it is the
\* label of the first preset, in the order the host wrote the presets and
\* leaving out the custom-label entry, whose start and end are on the days
\* of the selection; without such a preset it is the custom label when that
\* is shown and no label otherwise
C18_LabelMatching ==
    [][\A newRanges \in PresetTables :
          (/\ LabelComputed
           /\ ~drp'.threw
           /\ drp'.endDate # NULL
           /\ ConfiguredAs(drp', newRanges)) =>
              drp'.chosenLabel = MatchedLabel(drp', newRanges)]_vars

\* a pair that can be committed: the end is present and the start is at or
\* before it
Committable(p) == p.endDate # NULL /\ ~Gt(p.startDate, p.endDate)

\* C21: while the picker is open, the apply button is enabled exactly when
\* the end is present and the start is at or before it; it is disabled for
\* as long as the end is absent
C21_ApplyEnabled ==
    (drp.isShowing /\ ~drp.threw) => (drp.applyDisabled <=> ~Committable(drp))

\* open on an inverted pair, the apply button disabled
C21_Witness ==
    /\ drp.isShowing
    /\ drp.endDate # NULL
    /\ Gt(drp.startDate, drp.endDate)
    /\ drp.applyDisabled

\* the anchors after a step: the one of the side moved by delta months, the
\* other one moved along when the calendars are linked
Shifted(side, delta) ==
    /\ Calendar(drp', side).month = PlusMonths(Calendar(drp, side).month, delta)
    /\ \A other \in Sides \ {side} :
           Calendar(drp', other).month =
               IF drp.linkedCalendars
               THEN PlusMonths(Calendar(drp, other).month, delta)
               ELSE Calendar(drp, other).month

\* C22: the prev and the next arrow of the left calendar move the left
\* anchor by one month, and the right anchor with it exactly when the
\* calendars are linked
C22_LeftArrows ==
    [][/\ ClickPrevOn("left") => Shifted("left", 0 - 1)
       /\ ClickNextOn("left") => Shifted("left", 1)]_vars

RightOfSelection(p) ==
    IF ~p.linkedCalendars /\ p.endDate # NULL
       /\ (p.endDate.month # p.startDate.month
           \/ p.endDate.year # p.startDate.year)
    THEN SetDay(p.endDate, 2)
    ELSE PlusMonths(SetDay(p.startDate, 2), 1)

AnchorsOfSelection(p) ==
    /\ p.leftCalendar.month = SetDay(p.startDate, 2)
    /\ p.rightCalendar.month = RightOfSelection(p)

\* C24: after a click on a date, whether it sets the start (end absent) or
\* the end, the left anchor is the start with day 2 and the right anchor is
\* the one the selection asks for (maxDate not set)
C24_AnchorsFollow ==
    [][(ClickDate /\ drp.maxDate = NONE) => AnchorsOfSelection(drp')]_vars

\* C25: in every state both anchors are on day 2 of their month
C25_AnchorDayTwo ==
    drp.leftCalendar.month.day = 2 /\ drp.rightCalendar.month.day = 2

\* the anchors after the maxDate correction: the start in April, the right
\* anchor brought back to maxDate's April and the left one to March
C25_Witness ==
    /\ drp.maxDate # NONE /\ drp.linkedCalendars /\ drp.endDate # NULL
    /\ drp.startDate.month = 4
    /\ drp.leftCalendar.month.month = 3 /\ drp.leftCalendar.month.day = 2
    /\ drp.rightCalendar.month.month = 4 /\ drp.rightCalendar.month.day = 2

\* C26: in single-date mode, after setStartDate the end is present and on
\* the start's day
C26_SingleAssigned ==
    [][(drp.singleDatePicker /\ SetStartDate) =>
          (drp'.endDate # NULL /\ HasSameDay(drp'.startDate, drp'.endDate))]_vars


\* C27: in single-date mode with autoApply a click on a date closes the
\* picker and reports the selection when it differs from the committed one
\* if and only if there is no time picker; with the time picker the picker
\* stays open, no callback is invoked and the committed pair is kept
SelectionChanged(p) ==
    ~Equals(p.startDate, p.oldStartDate) \/ ~Equals(p.endDate, p.oldEndDate)

Cells == Sides \X Rows \X Cols

SelectionKept ==
    /\ drp'.startDate = drp.startDate
    /\ drp'.endDate = drp.endDate
    /\ drp'.oldStartDate = drp.oldStartDate
    /\ drp'.oldEndDate = drp.oldEndDate
    /\ drp'.leftCalendar = drp.leftCalendar
    /\ drp'.rightCalendar = drp.rightCalendar

C28_HoverPreview ==
    [][\A side \in Sides, day \in HoverDays :
          HoverDateOf(side, day) =>
              /\ SelectionKept
              /\ \A c \in Cells :
                     HasInRange(drp', c[1], c[2], c[3]) <=>
                         IF drp.endDate = NULL
                         THEN /\ Gt(ClickedDate(drp, c[1], c[2], c[3]),
                                    EndOfDay(drp.startDate))
                              /\ DayNum(ClickedDate(drp, c[1], c[2], c[3]))
                                     < DayNum(day)
                         ELSE HasInRange(drp, c[1], c[2], c[3])]_vars


\* C29: after the change of a month or year dropdown of a side, the year of
\* the side's anchor is between minYear and maxYear
CommandYears == {1920, 1921, 1924, 2024}

C29_YearClamped ==
    [][\A side \in Sides, month \in 1..12, year \in CommandYears :
          MonthOrYearChangedTo(side, month, year) =>
              /\ Calendar(drp', side).month.year >= drp.minYear
              /\ Calendar(drp', side).month.year <= drp.maxYear]_vars


\* C30: the hour of the day a handler makes of the hour h in 1..12 and the
\* meridiem m of a side's selects is 0 for 12 AM, h + 12 for a PM hour
\* other than 12, and h otherwise; no two pairs give the same hour and
\* every hour of 0..23 is given by one; and for the hour and meridiem the
\* 12-hour time picker shows for the time it was rendered for, it is the
\* hour of that time
Meridiems == {"AM", "PM"}

C30_HourConversion ==
    ~drp.timePicker24Hour =>
        /\ \A h \in 1..12, m \in Meridiems :
               H24(drp, h, m) = IF m = "AM" /\ h = 12 THEN 0
                                ELSE IF m = "PM" /\ h # 12 THEN h + 12
                                ELSE h
        /\ \A h1, h2 \in 1..12, m1, m2 \in Meridiems :
               H24(drp, h1, m1) = H24(drp, h2, m2) => (h1 = h2 /\ m1 = m2)
        /\ {H24(drp, h, m) : h \in 1..12, m \in Meridiems} = 0..23
        /\ (drp.isShowing /\ drp.times.rendered) =>
               \A side \in Sides :
                   H24(drp, TimeSelects(drp, side).value.hour,
                       TimeSelects(drp, side).value.ampm)
                       = TimeSelects(drp, side).selected.hour

\* open at noon after the AM/PM select was changed from 12 AM to PM
C30_Witness ==
    /\ drp.isShowing /\ drp.times.rendered
    /\ drp.times.left.value.hour = 12
    /\ drp.times.left.value.ampm = "PM"
    /\ drp.startDate.hour = 12
    /\ drp.oldStartDate.hour = 0


\* C31: the hour and minute options of the time selects are disabled
\* against maxDate alone when they were rendered with the end present, and
\* against the earlier of maxDate and start + maxSpan when they were
\* rendered with the end absent
TimeCeiling(p) ==
    IF p.times.right.disabled
    THEN TimeMaxDate(p.times.startDate, p.maxDate, p.maxSpan)
    ELSE p.maxDate

C31_TimeCeiling ==
    (drp.isShowing /\ drp.times.rendered) =>
        \A side \in Sides :
            /\ Selectable(drp, side, "hour") =
                   EnabledHours(drp, TimeSelects(drp, side).selected,
                                CurrentMinDate(side, drp.times.startDate,
                                               drp.minDate),
                                TimeCeiling(drp))
            /\ EnabledMinutes(drp, TimeSelects(drp, side).selected,
                              CurrentMinDate(side, drp.times.startDate,
                                             drp.minDate),
                              TimeMaxDate(drp.times.startDate, drp.maxDate,
                                          drp.maxSpan)) =
                   EnabledMinutes(drp, TimeSelects(drp, side).selected,
                                  CurrentMinDate(side, drp.times.startDate,
                                                 drp.minDate),
                                  TimeCeiling(drp))


\* C32: whenever the picker is not showing, the end is present
C32_ClosedComplete == ~drp.isShowing => drp.endDate # NULL


\* closed from a selection whose end was absent when the calendars were
\* last rendered, the committed pair back in place
C32_Witness ==
    /\ ~drp.isShowing
    /\ drp.tables.rendered /\ drp.tables.endDate = NULL
    /\ drp.endDate # NULL
    /\ Equals(drp.startDate, drp.oldStartDate)
    /\ Equals(drp.endDate, drp.oldEndDate)


\* the commands that close the picker
Closing == Toggle \/ Keydown \/ OutsideClick \/ ClickApply \/ ClickCancel

\* C33: a closing command while the picker shows and the end is absent
\* closes it, leaves the start and the end on the values snapshotted at the
\* opening and invokes no callback
C33_DiscardOnClose ==
    [][(drp.isShowing /\ drp.endDate = NULL /\ Closing) =>
          /\ ~drp'.isShowing
          /\ drp'.startDate = drp.oldStartDate
          /\ drp'.endDate = drp.oldEndDate
          /\ drp'.oldStartDate = drp.oldStartDate
          /\ drp'.oldEndDate = drp.oldEndDate
          /\ drp'.called = <<>>]_vars

\* closed from a selection whose start was picked on another day than the
\* committed one, no callback invoked
C33_Witness ==
    /\ ~drp.isShowing
    /\ drp.tables.rendered /\ drp.tables.endDate = NULL
    /\ ~HasSameDay(drp.tables.startDate, drp.oldStartDate)
    /\ Equals(drp.startDate, drp.oldStartDate)
    /\ Equals(drp.endDate, drp.oldEndDate)
    /\ drp.called = <<>>


\* C34: a command invokes the callback at most once and only when it closes
\* the picker, so at most once between two openings; the command that
\* closes the picker invokes it exactly when the start or the end it leaves
\* differs as an instant from the snapshot of the opening; and a close
\* command on the closed picker changes nothing
C34_CallbackOnClose ==
    [][/\ Len(drp'.called) <= 1
       /\ drp'.called # <<>> => (drp.isShowing /\ ~drp'.isShowing)
       /\ (drp.isShowing /\ ~drp'.isShowing) =>
              /\ drp'.called # <<>> <=>
                     \/ ~Equals(drp'.startDate, drp.oldStartDate)
                     \/ ~Equals(drp'.endDate, drp.oldEndDate)
              /\ \A i \in DOMAIN drp'.called :
                     /\ drp'.called[i].start = drp'.startDate
                     /\ drp'.called[i].end = drp'.endDate
       /\ (~drp.isShowing /\ Keydown) =>
              /\ drp'.startDate = drp.startDate
              /\ drp'.endDate = drp.endDate
              /\ ~drp'.isShowing
              /\ drp'.called = <<>>]_vars

\* closed on a range of two other days, the callback invoked once with it
C34_Witness ==
    /\ ~drp.isShowing
    /\ Len(drp.called) = 1
    /\ drp.called[1].start = drp.startDate
    /\ drp.called[1].end = drp.endDate
    /\ drp.startDate.day = 5 /\ drp.endDate.day = 12


\* C35: a show while the picker shows changes nothing; the snapshot is kept
\* for as long as the picker shows, so that a cancel puts the start and the
\* end back on the values they had at the opening
C35_ShowWhileShowing ==
    [][drp.isShowing =>
          /\ Show => drp' = Begin(drp)
          /\ drp'.isShowing =>
                 /\ drp'.oldStartDate = drp.oldStartDate
                 /\ drp'.oldEndDate = drp.oldEndDate
          /\ ClickCancel =>
                 /\ drp'.startDate = drp.oldStartDate
                 /\ drp'.endDate = drp.oldEndDate
                 /\ drp'.called = <<>>]_vars

\* open with a complete range other than the one of the opening
C35_Witness ==
    /\ drp.isShowing
    /\ drp.endDate # NULL
    /\ drp.startDate.day = 5 /\ drp.endDate.day = 12
    /\ drp.oldStartDate.day = 15 /\ drp.oldEndDate.day = 15


\* C36: with presets configured, a click on a date that leaves the end
\* absent completes without an exception and leaves no preset's label as
\* the chosen label
C36_OpenLabel ==
    [][(PresetClickDate /\ drp.ranges # <<>> /\ drp'.endDate = NULL) =>
          /\ ~drp'.threw
          /\ drp'.chosenLabel \in {drp.locale.customRangeLabel, NOLABEL}]_vars


\* the start is on minDate's day or after it
StartWithinMin(p) ==
    p.minDate # NONE => DayNum(p.startDate) >= DayNum(p.minDate)

\* C37: a click on a cell that does not carry available leaves the start,
\* the end, the committed pair, both anchors and isShowing as they were and
\* invokes no callback; and after every click, on whichever cell, the start
\* is not on a day before minDate
C37_DisabledClick ==
    [][/\ ClickDisabled =>
              /\ SelectionKept
              /\ drp'.isShowing = drp.isShowing
              /\ drp'.called = <<>>
       /\ StartWithinMin(drp')]_vars

\* open on a selection whose end is absent, the cell of 2024-03-05 shown
\* without available on the left calendar
C37_Witness ==
    /\ drp.isShowing /\ drp.tables.bound
    /\ drp.minDate # NONE
    /\ drp.endDate = NULL
    /\ \E row \in Rows, col \in Cols :
           /\ Civil(ClickedDate(drp, "left", row, col)) = Date(2024, 3, 5)
           /\ "available" \notin Table(drp, "left").cells[row][col]


\* C38: a picker constructed with options that do not give linkedCalendars,
\* autoUpdateInput or showCustomRangeLabel has that field TRUE, as declared
C38_DefaultsKept ==
    \A o \in Configs :
        drp = Construct(o) =>
            /\ o.linkedCalendars = {} => drp.linkedCalendars
            /\ o.autoUpdateInput = {} => drp.autoUpdateInput
            /\ o.showCustomRangeLabel = {} => drp.showCustomRangeLabel


\* the day of a date is within the limits that are set
WithinLimits(p, date) ==
    /\ p.minDate # NONE => DayNum(date) >= DayNum(p.minDate)
    /\ p.maxDate # NONE => DayNum(date) <= DayNum(p.maxDate)

\* C39: the selection the constructor leaves has its start at or before its
\* end, and the days of both are within minDate and maxDate
C39_InitialSelection ==
    /\ ~Gt(drp.startDate, drp.endDate)
    /\ WithinLimits(drp, drp.startDate)
    /\ WithinLimits(drp, drp.endDate)


\* C40: in range mode with the end absent, a click on an available cell of
\* a day before the start's makes that day the start, leaves the end absent
\* and the picker open, and commits nothing, autoApply or not
C40_RestartBeforeStart ==
    [][\A side \in Sides, day \in ClickDays :
          (/\ ~drp.singleDatePicker
           /\ drp.endDate = NULL
           /\ DayNum(day) < DayNum(drp.startDate)
           /\ ClickDateOf(side, day)) =>
              /\ Civil(drp'.startDate) = day
              /\ drp'.endDate = NULL
              /\ drp'.isShowing
              /\ drp'.called = <<>>
              /\ drp'.oldStartDate = drp.oldStartDate
              /\ drp'.oldEndDate = drp.oldEndDate]_vars

\* open under autoApply on a start earlier than the committed one, the end
\* absent
C40_Witness ==
    /\ drp.autoApply /\ ~drp.singleDatePicker
    /\ drp.isShowing
    /\ drp.endDate = NULL
    /\ drp.startDate.day = 5
    /\ drp.oldStartDate.day = 15

=============================================================================
